---- MODULE Spec2Model ----
(***************************************************************************)
(* Model of the model-surgeon engine.                                      *)
(*                                                                         *)
(* Part 1: SurgerySession (src/src/surgery/saveSurgery.ts:284-485) and the *)
(* host's performSurgery handler (src/src/extension.ts:213-271).           *)
(*                                                                         *)
(* Strings are sequences of one-character strings, so that startsWith,     *)
(* includes, split, join, substring and replace are computed character by  *)
(* character exactly as the JavaScript string methods compute them.        *)
(* A JavaScript object used as a map (Record<string, T>) is modelled as    *)
(* the sequence of its entries in property order: assignment to an         *)
(* existing key overwrites in place, assignment to a new key appends.      *)
(* (No key of the model is a canonical array index, so property order is   *)
(* insertion order.)                                                       *)
(***************************************************************************)
EXTENDS Integers, Sequences, FiniteSets, TLC

VARIABLES
  sessionActive,    \* extension.ts:19  currentSurgerySession !== undefined
  states,           \* saveSurgery.ts:292 SurgerySession.states
  currentIndex,     \* saveSurgery.ts:293 SurgerySession.currentIndex
  loadedModel,      \* the UnifiedTensorMap the session was constructed from (optional)
  currentModelB,    \* extension.ts:32  currentModelB (optional object)
  lastCall,         \* the last operation invoked, its arguments and result
  currentModelA,    \* extension.ts:24  currentModelA (optional object)
  loads,            \* the invocations of loadAndSendModel, each with the await it is at
  pool,             \* the fields of the WorkerPool (part_002:21-27)
  threads,          \* the worker threads: their state and the tasks posted to them
  promises,         \* the promise of every task execute() accepted
  started,          \* the tasks in the order runTask posted them
  terminateCall     \* where the call of terminate() is: "none", "awaiting", "returned"

\* the model loading of the host
hostVars == <<currentModelA, loads>>

\* the worker pool and its environment
poolVars == <<pool, threads, promises, started, terminateCall>>

vars ==
  <<sessionActive, states, currentIndex, loadedModel, currentModelB, lastCall,
    hostVars, poolVars>>

----------------------------------------------------------------------------
(* Bounds *)

\* longest state list the model explores (the code has no limit)
MaxStates == 3

----------------------------------------------------------------------------
(* JavaScript values *)

\* undefined where a string is expected (no string has a character of this
\* length)
Undefined == <<"undefined">>

\* undefined where an object is expected: an optional object is the empty
\* sequence or a sequence holding the object
NoObject == <<>>

EmptyStr == <<>>

DOT == <<".">>

LORA_A == <<"l", "o", "r", "a", "_", "A">>

LORA_B == <<"l", "o", "r", "a", "_", "B">>

----------------------------------------------------------------------------
(* String.prototype methods *)

\* s.startsWith(p)
StartsWith(s, p) ==
  /\ Len(p) <= Len(s)
  /\ SubSeq(s, 1, Len(p)) = p

\* s.indexOf(p): 0-based index of the first occurrence, -1 when absent
IndexOf(s, p) ==
  LET hits == {i \in 0..(Len(s) - Len(p)) : SubSeq(s, i + 1, i + Len(p)) = p}
  IN IF hits = {} THEN -1 ELSE CHOOSE i \in hits : \A j \in hits : i <= j

\* s.includes(p)
Includes(s, p) == IndexOf(s, p) # -1

\* s.substring(n), 0-based start
Substring(s, n) == SubSeq(s, n + 1, Len(s))

\* s.replace(pat, rep) with a string pattern: only the first occurrence is
\* replaced (no character of the model is "$", so rep is taken literally)
Replace(s, pat, rep) ==
  LET i == IndexOf(s, pat)
  IN IF i = -1 THEN s
     ELSE SubSeq(s, 1, i) \o rep \o SubSeq(s, i + Len(pat) + 1, Len(s))

\* s.split('.'): always at least one segment; empty segments are kept
RECURSIVE SplitFrom(_, _, _)
SplitFrom(s, i, cur) ==
  IF i > Len(s) THEN <<cur>>
  ELSE IF s[i] = "." THEN <<cur>> \o SplitFrom(s, i + 1, <<>>)
  ELSE SplitFrom(s, i + 1, Append(cur, s[i]))

Split(s) == SplitFrom(s, 1, <<>>)

\* parts.join('.')
RECURSIVE Join(_)
Join(parts) ==
  IF Len(parts) = 0 THEN <<>>
  ELSE IF Len(parts) = 1 THEN parts[1]
  ELSE parts[1] \o DOT \o Join(Tail(parts))

----------------------------------------------------------------------------
(* Record<string, T> as an ordered sequence of entries [key, info] *)

Keys(t) == {t[i].key : i \in 1..Len(t)}

Has(t, k) == k \in Keys(t)

\* t[k] for a key that is present
Get(t, k) == LET i == CHOOSE j \in 1..Len(t) : t[j].key = k IN t[i].info

\* t[k] = v
Put(t, k, v) ==
  IF Has(t, k)
  THEN [i \in 1..Len(t) |-> IF t[i].key = k THEN [key |-> k, info |-> v] ELSE t[i]]
  ELSE Append(t, [key |-> k, info |-> v])

\* delete t[k]
Delete(t, k) == SelectSeq(t, LAMBDA e : e.key # k)

\* { ...a, ...b } for maps modelled as functions (metadata, shardHeaderLengths)
Spread(a, b) ==
  [k \in (DOMAIN a) \cup (DOMAIN b) |-> IF k \in DOMAIN b THEN b[k] ELSE a[k]]

----------------------------------------------------------------------------
(* Test data: tensor names, records and models *)

\* ShardedTensorInfo (types/safetensors.ts): dtype, shape, dataOffsets, shardFile
Info(dtype, from, to, shard) ==
  [dtype |-> dtype, shape |-> <<(to - from) \div 2>>,
   dataOffsets |-> <<from, to>>, shardFile |-> shard]

P_m == <<"m">>

P_m1 == <<"m", ".", "1">>

P_m10 == <<"m", ".", "1", "0">>

P_x == <<"x">>

W == <<"w">>

V == <<"v">>

K_m1_w == P_m1 \o DOT \o W

K_m1_v == P_m1 \o DOT \o V

K_m1_loraA == P_m1 \o DOT \o LORA_A \o DOT \o W

K_m1_loraB == P_m1 \o DOT \o LORA_B \o DOT \o W

K_m10_w == P_m10 \o DOT \o W

K_m10_loraA == P_m10 \o DOT \o LORA_A \o DOT \o W

\* Model A: component m.1 with base weight and a LoRA pair, and component
\* m.10, whose path starts with the characters of m.1
ModelA ==
  [tensors |-> << [key |-> K_m1_w,      info |-> Info("F16", 0, 2, "A")],
                  [key |-> K_m1_loraA,  info |-> Info("F16", 2, 4, "A")],
                  [key |-> K_m1_loraB,  info |-> Info("F16", 4, 6, "A")],
                  [key |-> K_m10_w,     info |-> Info("F16", 6, 8, "A")],
                  [key |-> K_m10_loraA, info |-> Info("F16", 8, 10, "A")] >>,
   metadata |-> [format |-> "pt"],
   shardHeaderLengths |-> [A |-> 16]]

\* A second model that can be opened in place of Model A
ModelA2 ==
  [tensors |-> << [key |-> K_m1_w,  info |-> Info("BF16", 0, 2, "A2")],
                  [key |-> K_m10_w, info |-> Info("BF16", 2, 4, "A2")] >>,
   metadata |-> [format |-> "np"],
   shardHeaderLengths |-> [A2 |-> 24]]

\* Model B (comparison model): its m.1 holds w and v, no adapter
ModelB ==
  [tensors |-> << [key |-> K_m1_v,  info |-> Info("F32", 0, 4, "B")],
                  [key |-> K_m1_w,  info |-> Info("F32", 4, 8, "B")],
                  [key |-> K_m10_w, info |-> Info("F32", 8, 12, "B")] >>,
   shardHeaderLengths |-> [B |-> 32]]

OpenableModels == {ModelA, ModelA2}

\* inputs of the operations
TargetPaths == {P_m, P_m1, K_m1_w, P_x}

NewNames == {<<"n">>, <<"1", "0">>, EmptyStr}

NewAdapterPrefixes == {<<"p">>}

----------------------------------------------------------------------------
(* SurgerySession: constructor, getCurrentState, pushState *)

\* constructor(initialModel): the original state, a shallow copy of the model
OriginalState(initialModel) ==
  [tensors |-> initialModel.tensors,
   metadata |-> initialModel.metadata,
   shardHeaderLengths |-> initialModel.shardHeaderLengths]

\* getCurrentState(): a copy of states[currentIndex] (0-based index)
getCurrentState == states[currentIndex + 1]

\* a getter that counts the states after the first instead of the cursor
pendingChangesCountByLength == Len(states) - 1

\* pendingChangesCount getter
pendingChangesCount == currentIndex

\* a pushState that does not cut the state list
pushStateNoTruncate(sts, idx, newState) ==
  [states |-> Append(sts, newState), currentIndex |-> idx + 1]

\* pushState(newState): states is cut after the cursor, newState is pushed
\* and the cursor advances
pushState(sts, idx, newState) ==
  [states |-> Append(SubSeq(sts, 1, idx + 1), newState),
   currentIndex |-> idx + 1]

\* an undo that moves the cursor back without looking at it
undoUnguarded(sts, idx) == [currentIndex |-> idx - 1, ret |-> TRUE]

\* an undo that stops one position early
undoOffByOne(sts, idx) ==
  IF idx > 1
  THEN [currentIndex |-> idx - 1, ret |-> TRUE]
  ELSE [currentIndex |-> idx, ret |-> FALSE]

\* undo(): the cursor afterwards and the value returned
undo(sts, idx) ==
  IF idx > 0
  THEN [currentIndex |-> idx - 1, ret |-> TRUE]
  ELSE [currentIndex |-> idx, ret |-> FALSE]

\* a redo that stops one position early
redoOffByOne(sts, idx) ==
  IF idx < Len(sts) - 2
  THEN [currentIndex |-> idx + 1, ret |-> TRUE]
  ELSE [currentIndex |-> idx, ret |-> FALSE]

\* redo(): the cursor afterwards and the value returned
redo(sts, idx) ==
  IF idx < Len(sts) - 1
  THEN [currentIndex |-> idx + 1, ret |-> TRUE]
  ELSE [currentIndex |-> idx, ret |-> FALSE]

----------------------------------------------------------------------------
(* SurgerySession: the mutating operations *)

\* the state pushed by an operation that only changes the tensor map
WithTensors(cur, newTensors) ==
  [tensors |-> newTensors,
   metadata |-> cur.metadata,
   shardHeaderLengths |-> cur.shardHeaderLengths]

\* renameComponent: newBasePath = targetPath with its last segment replaced
NewBasePath(targetPath, newName) ==
  LET parts == Split(targetPath)
  IN Join([parts EXCEPT ![Len(parts)] = newName])

\* renameComponent: the for-loop over Object.entries(currentState.tensors)
RECURSIVE RenameLoop(_, _, _, _, _, _)
RenameLoop(entries, i, acc, targetPath, newBasePath, isSingleTensor) ==
  IF i > Len(entries) THEN acc
  ELSE
    LET key == entries[i].key
        tensor == entries[i].info
        prefix == targetPath \o DOT
        suffix == IF key = targetPath THEN EmptyStr
                  ELSE Substring(key, Len(prefix))
        newKey == IF suffix # EmptyStr THEN newBasePath \o DOT \o suffix
                  ELSE newBasePath
        acc2 == IF isSingleTensor /\ key = targetPath
                  THEN Put(acc, newBasePath, tensor)
                ELSE IF StartsWith(key, prefix) \/ key = targetPath
                  THEN Put(acc, newKey, tensor)
                ELSE Put(acc, key, tensor)
    IN RenameLoop(entries, i + 1, acc2, targetPath, newBasePath, isSingleTensor)

\* renameComponent(targetPath, newName)
renameComponent(sts, idx, targetPath, newName) ==
  LET currentState == sts[idx + 1]
      newBasePath == NewBasePath(targetPath, newName)
      isSingleTensor == Has(currentState.tensors, targetPath)
      newTensors == RenameLoop(currentState.tensors, 1, <<>>, targetPath,
                               newBasePath, isSingleTensor)
  IN pushState(sts, idx, WithTensors(currentState, newTensors))

\* a test that forgets the lora_B marker
IsAdapterKeyOfOnlyA(key, targetPath) ==
  StartsWith(key, targetPath) /\ Includes(key, LORA_A)

\* the test both LoRA operations apply to a key
IsAdapterKeyOf(key, targetPath) ==
  StartsWith(key, targetPath) /\ (Includes(key, LORA_A) \/ Includes(key, LORA_B))

\* removeLoraAdapter: the for-loop
RECURSIVE RemoveLoraLoop(_, _, _, _)
RemoveLoraLoop(entries, i, acc, targetPath) ==
  IF i > Len(entries) THEN acc
  ELSE IF IsAdapterKeyOf(entries[i].key, targetPath)
    THEN RemoveLoraLoop(entries, i + 1, acc, targetPath)
  ELSE RemoveLoraLoop(entries, i + 1,
                      Put(acc, entries[i].key, entries[i].info), targetPath)

\* removeLoraAdapter(targetPath)
removeLoraAdapter(sts, idx, targetPath) ==
  LET currentState == sts[idx + 1]
      newTensors == RemoveLoraLoop(currentState.tensors, 1, <<>>, targetPath)
  IN pushState(sts, idx, WithTensors(currentState, newTensors))

\* renameLoraAdapter: the for-loop
\* the rename loop without the marker test: every key that starts with the
\* target path is renamed
RECURSIVE RenameLoraLoopAll(_, _, _, _, _)
RenameLoraLoopAll(entries, i, acc, targetPath, newAdapterPrefix) ==
  IF i > Len(entries) THEN acc
  ELSE
    LET key == entries[i].key
        newKey == Replace(key, targetPath, newAdapterPrefix)
        acc2 == IF StartsWith(key, targetPath)
                  THEN Put(acc, newKey, entries[i].info)
                ELSE Put(acc, key, entries[i].info)
    IN RenameLoraLoopAll(entries, i + 1, acc2, targetPath, newAdapterPrefix)

RECURSIVE RenameLoraLoop(_, _, _, _, _)
RenameLoraLoop(entries, i, acc, targetPath, newAdapterPrefix) ==
  IF i > Len(entries) THEN acc
  ELSE
    LET key == entries[i].key
        newKey == Replace(key, targetPath, newAdapterPrefix)
        acc2 == IF IsAdapterKeyOf(key, targetPath)
                  THEN Put(acc, newKey, entries[i].info)
                ELSE Put(acc, key, entries[i].info)
    IN RenameLoraLoop(entries, i + 1, acc2, targetPath, newAdapterPrefix)

\* renameLoraAdapter(targetPath, newAdapterPrefix)
renameLoraAdapter(sts, idx, targetPath, newAdapterPrefix) ==
  LET currentState == sts[idx + 1]
      newTensors == RenameLoraLoop(currentState.tensors, 1, <<>>, targetPath,
                                   newAdapterPrefix)
  IN pushState(sts, idx, WithTensors(currentState, newTensors))

\* key === targetPath || key.startsWith(targetPath + '.')
AtOrUnder(key, targetPath) ==
  key = targetPath \/ StartsWith(key, targetPath \o DOT)

\* replaceComponent: first loop, delete the keys at or under targetPath
RECURSIVE ReplaceDeleteLoop(_, _, _, _)
ReplaceDeleteLoop(keys, i, acc, targetPath) ==
  IF i > Len(keys) THEN acc
  ELSE IF AtOrUnder(keys[i], targetPath)
    THEN ReplaceDeleteLoop(keys, i + 1, Delete(acc, keys[i]), targetPath)
  ELSE ReplaceDeleteLoop(keys, i + 1, acc, targetPath)

\* a copy loop that takes every source key
RECURSIVE ReplaceCopyLoopAll(_, _, _, _)
ReplaceCopyLoopAll(entries, i, acc, targetPath) ==
  IF i > Len(entries) THEN acc
  ELSE ReplaceCopyLoopAll(entries, i + 1,
                          Put(acc, entries[i].key, entries[i].info), targetPath)

\* replaceComponent: second loop, copy the source keys at or under targetPath
RECURSIVE ReplaceCopyLoop(_, _, _, _)
ReplaceCopyLoop(entries, i, acc, targetPath) ==
  IF i > Len(entries) THEN acc
  ELSE IF AtOrUnder(entries[i].key, targetPath)
    THEN ReplaceCopyLoop(entries, i + 1,
                         Put(acc, entries[i].key, entries[i].info), targetPath)
  ELSE ReplaceCopyLoop(entries, i + 1, acc, targetPath)

\* replaceComponent(targetPath, sourceModelTensors, sourceModelHeaders)
replaceComponent(sts, idx, targetPath, sourceModelTensors, sourceModelHeaders) ==
  LET currentState == sts[idx + 1]
      copied == currentState.tensors
      keys == [i \in 1..Len(copied) |-> copied[i].key]
      afterDelete == ReplaceDeleteLoop(keys, 1, copied, targetPath)
      newTensors == ReplaceCopyLoop(sourceModelTensors, 1, afterDelete, targetPath)
  IN pushState(sts, idx,
       [tensors |-> newTensors,
        metadata |-> currentState.metadata,
        shardHeaderLengths |->
          Spread(currentState.shardHeaderLengths, sourceModelHeaders)])

\* removeTensor: the for-loop
RECURSIVE RemoveTensorLoop(_, _, _, _)
RemoveTensorLoop(entries, i, acc, targetPath) ==
  IF i > Len(entries) THEN acc
  ELSE IF AtOrUnder(entries[i].key, targetPath)
    THEN RemoveTensorLoop(entries, i + 1, acc, targetPath)
  ELSE RemoveTensorLoop(entries, i + 1,
                        Put(acc, entries[i].key, entries[i].info), targetPath)

\* a removeTensor that deletes from the current state's own tensor map
removeTensorInPlace(sts, idx, targetPath) ==
  LET currentState == sts[idx + 1]
      newTensors == RemoveTensorLoop(currentState.tensors, 1, <<>>, targetPath)
      edited == WithTensors(currentState, newTensors)
  IN pushState([sts EXCEPT ![idx + 1] = edited], idx, edited)

\* removeTensor(targetPath)
removeTensor(sts, idx, targetPath) ==
  LET currentState == sts[idx + 1]
      newTensors == RemoveTensorLoop(currentState.tensors, 1, <<>>, targetPath)
  IN pushState(sts, idx, WithTensors(currentState, newTensors))

----------------------------------------------------------------------------
(* The host's performSurgery handler (extension.ts:213-271) *)

\* SurgeryOperation messages (types/messages.ts:61-66); newName and
\* sourceModel are optional, "mergeTensor" is an operation kind the host
\* does not know
Msg(type, newName, sourceModel) ==
  [operationType |-> type, targetPath |-> P_m1, newName |-> newName,
   sourceModel |-> sourceModel]

Operations ==
  {Msg("renameTensor", nn, "undefined") : nn \in {Undefined, EmptyStr, <<"n">>, <<"1", "0">>}}
  \cup {Msg("renameLoraAdapter", nn, "undefined") : nn \in {Undefined, EmptyStr, <<"p">>}}
  \cup {Msg("replaceTensor", Undefined, sm) : sm \in {"undefined", "A", "B"}}
  \cup {Msg(t, Undefined, "undefined") :
          t \in {"removeTensor", "removeLoraAdapter", "mergeTensor"}}

\* !op.newName
Falsy(v) == v = Undefined \/ v = EmptyStr

\* a switch that does not check newName before renaming
performSurgerySwitchUnchecked(sts, idx, modelB, op) ==
  LET unchanged == [states |-> sts, currentIndex |-> idx]
      thrown(e) == [error |-> e, session |-> unchanged]
      done(r) == [error |-> "", session |-> r]
  IN CASE op.operationType = "renameTensor" ->
            done(renameComponent(sts, idx, op.targetPath, op.newName))
       [] op.operationType = "removeTensor" ->
            done(removeTensor(sts, idx, op.targetPath))
       [] op.operationType = "renameLoraAdapter" ->
            done(renameLoraAdapter(sts, idx, op.targetPath, op.newName))
       [] op.operationType = "removeLoraAdapter" ->
            done(removeLoraAdapter(sts, idx, op.targetPath))
       [] op.operationType = "replaceTensor" ->
            IF op.sourceModel = "B" /\ modelB # NoObject
            THEN done(replaceComponent(sts, idx, op.targetPath, modelB[1].tensors,
                                       modelB[1].shardHeaderLengths))
            ELSE thrown("Source model B not available")
       [] OTHER -> thrown("Unknown operation type")

\* the try block up to the end of the switch: the error thrown, or "" with
\* the session after the operation
performSurgerySwitch(sts, idx, modelB, op) ==
  LET unchanged == [states |-> sts, currentIndex |-> idx]
      thrown(e) == [error |-> e, session |-> unchanged]
      done(r) == [error |-> "", session |-> r]
  IN CASE op.operationType = "renameTensor" ->
            IF Falsy(op.newName) THEN thrown("newName required for renameTensor")
            ELSE done(renameComponent(sts, idx, op.targetPath, op.newName))
       [] op.operationType = "removeTensor" ->
            done(removeTensor(sts, idx, op.targetPath))
       [] op.operationType = "renameLoraAdapter" ->
            IF Falsy(op.newName) THEN thrown("newName required for renameLoraAdapter")
            ELSE done(renameLoraAdapter(sts, idx, op.targetPath, op.newName))
       [] op.operationType = "removeLoraAdapter" ->
            done(removeLoraAdapter(sts, idx, op.targetPath))
       [] op.operationType = "replaceTensor" ->
            IF op.sourceModel = "B" /\ modelB # NoObject
            THEN done(replaceComponent(sts, idx, op.targetPath, modelB[1].tensors,
                                       modelB[1].shardHeaderLengths))
            ELSE thrown("Source model B not available")
       [] OTHER -> thrown("Unknown operation type")

----------------------------------------------------------------------------
(* Part 2: safetensors files (parsers/serializer.ts, parsers/headerParser.ts,
   parsers/tensorReader.ts, surgery/saveSurgery.ts).

   A file is its 8-byte length prefix (bytes 0..255), the text of its header
   and its tensor data.  The header text is kept as the sequence of its JSON
   tokens; a token stands for the UTF-8 bytes that spell it, so the length
   of the text, the padding and every file offset are counted in bytes.
   Tensor data bytes are opaque values ("a0", "a1", ...). *)

\* the property names of the header
METADATA_KEY == <<"_", "_", "m", "e", "t", "a", "d", "a", "t", "a", "_", "_">>

DTYPE_KEY == <<"d", "t", "y", "p", "e">>

SHAPE_KEY == <<"s", "h", "a", "p", "e">>

DATA_OFFSETS_KEY == <<"d", "a", "t", "a", "_", "o", "f", "f", "s", "e", "t", "s">>

\* the strings that are values in the model (dtypes, metadata keys and
\* values), spelled out: Buffer.from(s, 'utf-8')
Utf8(s) ==
  CASE s = "format" -> <<"f", "o", "r", "m", "a", "t">>
    [] s = "shard1" -> <<"s", "h", "a", "r", "d", "1">>
    [] s = "shard2" -> <<"s", "h", "a", "r", "d", "2">>
    [] s = "shard3" -> <<"s", "h", "a", "r", "d", "3">>
    [] s = "pt" -> <<"p", "t">>
    [] s = "np" -> <<"n", "p">>
    [] s = "tf" -> <<"t", "f">>
    [] s = "F64" -> <<"F", "6", "4">>
    [] s = "F32" -> <<"F", "3", "2">>
    [] s = "F16" -> <<"F", "1", "6">>
    [] s = "BF16" -> <<"B", "F", "1", "6">>
    [] s = "I64" -> <<"I", "6", "4">>
    [] s = "I32" -> <<"I", "3", "2">>
    [] s = "I16" -> <<"I", "1", "6">>
    [] s = "I8" -> <<"I", "8">>
    [] s = "U8" -> <<"U", "8">>
    [] s = "BOOL" -> <<"B", "O", "O", "L">>
    [] s = "F8_E4M3" -> <<"F", "8", "_", "E", "4", "M", "3">>
    [] s = "F8_E5M2" -> <<"F", "8", "_", "E", "5", "M", "2">>
    [] s = "model_surgeon.operations" ->
         <<"m", "o", "d", "e", "l", "_", "s", "u", "r", "g", "e", "o", "n", ".",
           "o", "p", "e", "r", "a", "t", "i", "o", "n", "s">>
    [] s = "model_surgeon.source" ->
         <<"m", "o", "d", "e", "l", "_", "s", "u", "r", "g", "e", "o", "n", ".",
           "s", "o", "u", "r", "c", "e">>

\* dtypes accepted by the parser
VALID_DTYPES ==
  {"F64", "F32", "F16", "BF16", "I64", "I32", "I16", "I8", "U8", "BOOL",
   "F8_E4M3", "F8_E5M2"}

\* bytes per element
DTYPE_BYTE_SIZE ==
  [F64 |-> 8, F32 |-> 4, F16 |-> 2, BF16 |-> 2, I64 |-> 8, I32 |-> 4,
   I16 |-> 2, I8 |-> 1, U8 |-> 1, BOOL |-> 1, F8_E4M3 |-> 1, F8_E5M2 |-> 1]

\* the strings the model can decode
KnownStrings ==
  VALID_DTYPES \cup {"format", "pt", "np", "tf", "model_surgeon.operations",
                     "model_surgeon.source", "shard1", "shard2", "shard3"}

\* buf.toString('utf-8') of the bytes of a known string
FromUtf8(cs) == CHOOSE s \in KnownStrings : Utf8(s) = cs

\* UTF-16 code units of the characters of tensor names (all ASCII)
CharCode(c) ==
  CASE c = "." -> 46 [] c = "0" -> 48 [] c = "1" -> 49 [] c = "2" -> 50
    [] c = "A" -> 65 [] c = "B" -> 66 [] c = "_" -> 95 [] c = "a" -> 97
    [] c = "l" -> 108 [] c = "m" -> 109 [] c = "n" -> 110 [] c = "o" -> 111
    [] c = "p" -> 112 [] c = "r" -> 114 [] c = "v" -> 118 [] c = "w" -> 119
    [] c = "x" -> 120 [] c = "y" -> 121 [] c = "z" -> 122
    [] c = "b" -> 98 [] c = "c" -> 99 [] c = "d" -> 100 [] c = "e" -> 101
    [] c = "g" -> 103 [] c = "h" -> 104 [] c = "i" -> 105 [] c = "q" -> 113
    [] c = "s" -> 115 [] c = "t" -> 116

\* the default comparison of Array.prototype.sort: a before b by code units
LessString(a, b) ==
  LET n == IF Len(a) < Len(b) THEN Len(a) ELSE Len(b)
      d == {i \in 1..n : a[i] # b[i]}
  IN IF d = {} THEN Len(a) < Len(b)
     ELSE LET i == CHOOSE j \in d : \A k \in d : j <= k
          IN CharCode(a[i]) < CharCode(b[i])

\* keys.sort()
RECURSIVE ArraySort(_)
ArraySort(keys) ==
  IF Len(keys) <= 1 THEN keys
  ELSE LET rest == ArraySort(Tail(keys))
           before == SelectSeq(rest, LAMBDA k : LessString(k, Head(keys)))
           after == SelectSeq(rest, LAMBDA k : ~LessString(k, Head(keys)))
       IN before \o <<Head(keys)>> \o after

\* Object.keys(t)
ObjectKeys(t) == [i \in 1..Len(t) |-> t[i].key]

\* the keys of a map modelled as a function, in some fixed order
RECURSIVE SetToSeq(_)
SetToSeq(S) ==
  IF S = {} THEN <<>>
  ELSE LET x == CHOOSE y \in S : TRUE IN <<x>> \o SetToSeq(S \ {x})

\* decimal digits of a non-negative integer, as JSON.stringify writes it
RECURSIVE DecimalDigits(_)
DecimalDigits(n) ==
  LET digit == <<"0", "1", "2", "3", "4", "5", "6", "7", "8", "9">>[(n % 10) + 1]
  IN IF n < 10 THEN <<digit>> ELSE DecimalDigits(n \div 10) \o <<digit>>

----------------------------------------------------------------------------
(* JSON values, JSON.stringify and JSON.parse *)

JStr(cs) == [j |-> "str", v |-> cs]

JNum(n) == [j |-> "num", v |-> n]

JArr(elements) == [j |-> "arr", v |-> elements]

\* entries [key, info] in property order
JObj(entries) == [j |-> "obj", v |-> entries]

\* tokens of a JSON text: punctuation and white space, strings, numbers
Punct(c) == [t |-> c]

StrTok(cs) == [t |-> "s", v |-> cs]

NumTok(n) == [t |-> "n", v |-> n]

\* the bytes that spell a token
TokenChars(tok) ==
  CASE tok.t = "s" -> <<"\"">> \o tok.v \o <<"\"">>
    [] tok.t = "n" -> DecimalDigits(tok.v)
    [] OTHER -> <<tok.t>>

\* Buffer.from(text, 'utf-8'): the bytes of the tokens, one after the other
\* (computed by halves)
RECURSIVE TextChars(_)
TextChars(toks) ==
  IF Len(toks) = 0 THEN <<>>
  ELSE IF Len(toks) = 1 THEN TokenChars(toks[1])
  ELSE LET mid == Len(toks) \div 2
       IN TextChars(SubSeq(toks, 1, mid)) \o TextChars(SubSeq(toks, mid + 1, Len(toks)))

\* Buffer.from(text, 'utf-8').length
RECURSIVE ByteLength(_)
ByteLength(toks) ==
  IF Len(toks) = 0 THEN 0
  ELSE IF Len(toks) = 1 THEN Len(TokenChars(toks[1]))
  ELSE LET mid == Len(toks) \div 2
       IN ByteLength(SubSeq(toks, 1, mid)) + ByteLength(SubSeq(toks, mid + 1, Len(toks)))

\* JSON.stringify(x): no white space
RECURSIVE JSONstringify(_)
JSONstringify(x) ==
  CASE x.j = "str" -> <<StrTok(x.v)>>
    [] x.j = "num" -> <<NumTok(x.v)>>
    [] x.j = "arr" ->
         LET item(i) == (IF i > 1 THEN <<Punct(",")>> ELSE <<>>) \o JSONstringify(x.v[i])
             items[i \in 0..Len(x.v)] == IF i = 0 THEN <<>> ELSE items[i - 1] \o item(i)
         IN <<Punct("[")>> \o items[Len(x.v)] \o <<Punct("]")>>
    [] x.j = "obj" ->
         LET member(i) == (IF i > 1 THEN <<Punct(",")>> ELSE <<>>)
                            \o <<StrTok(x.v[i].key), Punct(":")>>
                            \o JSONstringify(x.v[i].info)
             members[i \in 0..Len(x.v)] ==
               IF i = 0 THEN <<>> ELSE members[i - 1] \o member(i)
         IN <<Punct("{")>> \o members[Len(x.v)] \o <<Punct("}")>>

\* the position of the first token at or after i that is not white space
RECURSIVE SkipWhitespace(_, _)
SkipWhitespace(toks, i) ==
  IF i <= Len(toks) /\ toks[i].t = " " THEN SkipWhitespace(toks, i + 1) ELSE i

SyntaxError == [ok |-> FALSE, val |-> JNum(0), next |-> 0]

\* JSON.parse, by recursive descent: [ok, val, next]
RECURSIVE ParseValue(_, _)
RECURSIVE ParseElements(_, _, _)
RECURSIVE ParseMembers(_, _, _)
ParseValue(toks, i) ==
  LET k == SkipWhitespace(toks, i)
  IN IF k > Len(toks) THEN SyntaxError
     ELSE CASE toks[k].t = "s" -> [ok |-> TRUE, val |-> JStr(toks[k].v), next |-> k + 1]
            [] toks[k].t = "n" -> [ok |-> TRUE, val |-> JNum(toks[k].v), next |-> k + 1]
            [] toks[k].t = "[" ->
                 LET c == SkipWhitespace(toks, k + 1)
                 IN IF c <= Len(toks) /\ toks[c].t = "]"
                    THEN [ok |-> TRUE, val |-> JArr(<<>>), next |-> c + 1]
                    ELSE ParseElements(toks, k + 1, <<>>)
            [] toks[k].t = "{" ->
                 LET c == SkipWhitespace(toks, k + 1)
                 IN IF c <= Len(toks) /\ toks[c].t = "}"
                    THEN [ok |-> TRUE, val |-> JObj(<<>>), next |-> c + 1]
                    ELSE ParseMembers(toks, k + 1, <<>>)
            [] OTHER -> SyntaxError

ParseElements(toks, i, acc) ==
  LET r == ParseValue(toks, i)
  IN IF ~r.ok THEN SyntaxError
     ELSE LET k == SkipWhitespace(toks, r.next)
              acc2 == Append(acc, r.val)
          IN IF k > Len(toks) THEN SyntaxError
             ELSE IF toks[k].t = "," THEN ParseElements(toks, k + 1, acc2)
             ELSE IF toks[k].t = "]"
               THEN [ok |-> TRUE, val |-> JArr(acc2), next |-> k + 1]
             ELSE SyntaxError

ParseMembers(toks, i, acc) ==
  LET k == SkipWhitespace(toks, i)
      c == SkipWhitespace(toks, k + 1)
  IN IF c > Len(toks) \/ toks[k].t # "s" \/ toks[c].t # ":" THEN SyntaxError
     ELSE LET r == ParseValue(toks, c + 1)
          IN IF ~r.ok THEN SyntaxError
             ELSE LET e == SkipWhitespace(toks, r.next)
                      acc2 == Put(acc, toks[k].v, r.val)
                  IN IF e > Len(toks) THEN SyntaxError
                     ELSE IF toks[e].t = "," THEN ParseMembers(toks, e + 1, acc2)
                     ELSE IF toks[e].t = "}"
                       THEN [ok |-> TRUE, val |-> JObj(acc2), next |-> e + 1]
                     ELSE SyntaxError

\* JSON.parse(text): the whole text must be one value
JSONparse(toks) ==
  LET whole(r) == IF r.ok /\ SkipWhitespace(toks, r.next) > Len(toks) THEN r
                  ELSE SyntaxError
  IN whole(ParseValue(toks, 1))

\* String(v) of a parsed JSON string or number
String(v) == IF v.j = "num" THEN DecimalDigits(v.v) ELSE v.v

----------------------------------------------------------------------------
(* Files and file handles *)

\* the guard of parseHeader against oversized headers, in bytes
MAX_HEADER_SIZE == 100 * 1024 * 1024

\* lengthBuf.writeBigUInt64LE(BigInt(n)): 8 bytes, least significant first
RECURSIVE LittleEndian(_, _)
LittleEndian(n, count) ==
  IF count = 0 THEN <<>> ELSE <<n % 256>> \o LittleEndian(n \div 256, count - 1)

writeBigUInt64LE(n) == LittleEndian(n, 8)

\* Number(lengthBuf.readBigUInt64LE(0))
RECURSIVE readBigUInt64LE(_)
readBigUInt64LE(bytes) ==
  IF Len(bytes) = 0 THEN 0 ELSE bytes[1] + 256 * readBigUInt64LE(Tail(bytes))

\* a file: length prefix, header text, tensor data
File(prefix, text, data) == [prefix |-> prefix, text |-> text, data |-> data]

\* all the bytes of a file, in file order
FileBytes(f) == f.prefix \o TextChars(f.text) \o f.data

\* fd.read(buffer, 0, length, position): the bytes read (fewer than length at
\* the end of the file)
FdRead(f, length, position) ==
  LET upTo(all) == SubSeq(all, position + 1,
                          IF position + length < Len(all) THEN position + length
                          ELSE Len(all))
  IN upTo(FileBytes(f))

\* the number of leading tokens of text that spell exactly length bytes, -1
\* when length bytes end inside a token or beyond the text
RECURSIVE TokensWithin(_, _, _, _)
TokensWithin(text, lo, hi, length) ==
  LET mid == (lo + hi) \div 2
      compare(n) == IF n = length THEN mid
                    ELSE IF n < length THEN TokensWithin(text, mid + 1, hi, length)
                    ELSE TokensWithin(text, lo, mid - 1, length)
  IN IF lo > hi THEN -1 ELSE compare(ByteLength(SubSeq(text, 1, mid)))

\* headerBuf.toString('utf-8') for the length bytes that follow the prefix,
\* as JSON tokens: ok is FALSE when the bytes end inside a token or run into
\* the tensor data (which is no JSON text)
HeaderText(text, length) ==
  LET taken(count) == IF count = -1 THEN [ok |-> FALSE, toks |-> <<>>]
                      ELSE [ok |-> TRUE, toks |-> SubSeq(text, 1, count)]
  IN taken(TokensWithin(text, 0, Len(text), length))

\* what a call did to file handles and buffers, in order
Ev(kind, path, n, position) == [ev |-> kind, path |-> path, n |-> n, position |-> position]

\* outcome of a call: the error thrown ("" when none), the value returned
\* (an optional object) and the events of the call
Returned(value, events) == [error |-> "", value |-> <<value>>, events |-> events]

Thrown(error, events) == [error |-> error, value |-> NoObject, events |-> events]

\* a handle that is closed only when the body ends without error
TryCloseOnSuccess(path, body) ==
  [error |-> body.error, value |-> body.value,
   events |-> <<Ev("open", path, 0, 0)>> \o body.events
                \o (IF body.error = "" THEN <<Ev("close", path, 0, 0)>> ELSE <<>>)]

\* try { body } finally { await fd.close() } around an open handle
TryFinallyClose(path, body) ==
  [error |-> body.error, value |-> body.value,
   events |-> <<Ev("open", path, 0, 0)>> \o body.events \o <<Ev("close", path, 0, 0)>>]

\* path.dirname / path.basename / path.join on [dir, base]
resolvePath(basePath, filename) == [dir |-> basePath.dir, base |-> filename]

----------------------------------------------------------------------------
(* parseHeader (parsers/headerParser.ts) *)

\* Object.entries(value) of a parsed JSON value: the members of an object,
\* the elements of an array and the characters of a string under their
\* indices, nothing for a number
ObjectEntries(value) ==
  CASE value.j = "obj" -> value.v
    [] value.j = "arr" ->
         [i \in 1..Len(value.v) |-> [key |-> DecimalDigits(i - 1), info |-> value.v[i]]]
    [] value.j = "str" ->
         [i \in 1..Len(value.v) |->
            [key |-> DecimalDigits(i - 1), info |-> JStr(<<value.v[i]>>)]]
    [] OTHER -> <<>>

\* tensorData.<name>: an optional value
Field(value, name) ==
  IF value.j = "obj" /\ Has(value.v, name) THEN <<Get(value.v, name)>>
  ELSE NoObject

\* the loop over the entries of the __metadata__ object
RECURSIVE MetadataLoop(_, _, _)
MetadataLoop(entries, i, metadata) ==
  IF i > Len(entries) THEN metadata
  ELSE MetadataLoop(entries, i + 1,
         Spread(metadata, FromUtf8(entries[i].key) :> FromUtf8(String(entries[i].info))))

\* the loop over the entries of the raw header: [error, metadata, tensors]
RECURSIVE HeaderLoop(_, _, _, _)
HeaderLoop(entries, i, metadata, tensors) ==
  IF i > Len(entries) THEN [error |-> "", metadata |-> metadata, tensors |-> tensors]
  ELSE
    LET key == entries[i].key
        value == entries[i].info
        dtype == Field(value, DTYPE_KEY)
        shape == Field(value, SHAPE_KEY)
        data_offsets == Field(value, DATA_OFFSETS_KEY)
        failed(e) == [error |-> e, metadata |-> metadata, tensors |-> tensors]
    IN IF key = METADATA_KEY
       THEN HeaderLoop(entries, i + 1,
              IF value.j \in {"obj", "arr"}
              THEN MetadataLoop(ObjectEntries(value), 1, metadata) ELSE metadata,
              tensors)
       ELSE IF \/ dtype = NoObject
               \/ dtype[1].j # "str"
               \/ dtype[1].v \notin {Utf8(d) : d \in VALID_DTYPES}
         THEN failed("Invalid dtype")
       ELSE IF shape = NoObject \/ shape[1].j # "arr"
         THEN failed("Invalid shape")
       ELSE IF \/ data_offsets = NoObject
               \/ data_offsets[1].j # "arr"
               \/ Len(data_offsets[1].v) # 2
               \/ data_offsets[1].v[1].j # "num"
               \/ data_offsets[1].v[2].j # "num"
         THEN failed("Invalid data_offsets")
       ELSE HeaderLoop(entries, i + 1, metadata,
              Put(tensors, key,
                  [dtype |-> FromUtf8(dtype[1].v),
                   shape |-> [d \in 1..Len(shape[1].v) |-> shape[1].v[d].v],
                   dataOffsets |-> <<data_offsets[1].v[1].v, data_offsets[1].v[2].v>>]))

\* a guard that lets every header length through
ExceedsMaximumNever(headerLength) == FALSE

\* headerLength > MAX_HEADER_SIZE
ExceedsMaximum(headerLength) == headerLength > MAX_HEADER_SIZE

\* the try block of parseHeader on an open file, statement by statement:
\* each step takes the values the statements before it have bound
parseHeaderTry(path, f) ==
  LET first == <<Ev("alloc", path, 8, 0), Ev("read", path, 8, 0)>>
      second(headerLength) ==
        first \o <<Ev("alloc", path, headerLength, 0), Ev("read", path, headerLength, 8)>>
      \* the for-loop over Object.entries(rawHeader) and the return
      withEntries(headerLength, loop) ==
        IF loop.error # "" THEN Thrown(loop.error, second(headerLength))
        ELSE Returned([metadata |-> loop.metadata, tensors |-> loop.tensors,
                       headerLength |-> headerLength], second(headerLength))
      \* rawHeader = JSON.parse(headerJson), caught and rethrown
      withRawHeader(headerLength, rawHeader) ==
        IF ~rawHeader.ok
        THEN Thrown("header is not valid JSON", second(headerLength))
        ELSE withEntries(headerLength,
                         HeaderLoop(ObjectEntries(rawHeader.val), 1, <<>>, <<>>))
      \* headerJson = headerBuf.toString('utf-8')
      withHeaderJson(headerLength, headerJson) ==
        IF ~headerJson.ok THEN Thrown("header is not valid JSON", second(headerLength))
        ELSE withRawHeader(headerLength, JSONparse(headerJson.toks))
      \* the read of the header bytes
      withHeaderBuf(headerLength, headerBuf) ==
        IF Len(headerBuf) < headerLength
        THEN Thrown("could not read full header", second(headerLength))
        ELSE withHeaderJson(headerLength, HeaderText(f.text, headerLength))
      \* headerLength = Number(lengthBuf.readBigUInt64LE(0)) and its guards
      withHeaderLength(headerLength) ==
        IF headerLength <= 0 THEN Thrown("header length is zero or negative", first)
        ELSE IF ExceedsMaximum(headerLength)
          THEN Thrown("Header size exceeds maximum allowed", first)
        ELSE withHeaderBuf(headerLength, FdRead(f, headerLength, 8))
      \* the read of the 8-byte prefix
      withLengthBuf(lengthBuf) ==
        IF Len(lengthBuf) < 8 THEN Thrown("could not read header length", first)
        ELSE withHeaderLength(readBigUInt64LE(lengthBuf))
  IN withLengthBuf(FdRead(f, 8, 0))

\* parseHeader(filePath) on a disk (a function from paths to files)
parseHeader(disk, filePath) ==
  IF filePath \notin DOMAIN disk THEN Thrown("ENOENT", <<>>)
  ELSE TryFinallyClose(filePath, parseHeaderTry(filePath, disk[filePath]))

\* loadSingleFileAsUnified(filePath): the header as a UnifiedTensorMap
loadSingleFileAsUnified(disk, filePath) ==
  LET fileName == filePath.base
      unified(header) ==
        IF header.error # "" THEN header
        ELSE Returned(
               [tensors |-> [i \in 1..Len(header.value[1].tensors) |->
                               [key |-> header.value[1].tensors[i].key,
                                info |-> [dtype |-> header.value[1].tensors[i].info.dtype,
                                          shape |-> header.value[1].tensors[i].info.shape,
                                          dataOffsets |->
                                            header.value[1].tensors[i].info.dataOffsets,
                                          shardFile |-> fileName]]],
                metadata |-> header.value[1].metadata,
                shardHeaderLengths |-> fileName :> header.value[1].headerLength],
               header.events)
  IN unified(parseHeader(disk, filePath))

----------------------------------------------------------------------------
(* loadShardedModel (parsers/shardedModel.ts) *)

\* the name of the index file, and the properties of the index
INDEX_FILE == "model.safetensors.index.json"

WEIGHT_MAP_KEY == <<"w", "e", "i", "g", "h", "t", "_", "m", "a", "p">>

INDEX_METADATA_KEY == <<"m", "e", "t", "a", "d", "a", "t", "a">>

\* findIndexFile(inputPath, dir): the path of the index, if any
findIndexFile(disk, inputPath, dir) ==
  IF inputPath.base = INDEX_FILE THEN <<inputPath>>
  ELSE IF [dir |-> dir, base |-> INDEX_FILE] \in DOMAIN disk
    THEN <<[dir |-> dir, base |-> INDEX_FILE]>>
  ELSE NoObject

\* [...new Set(values)]: the values in the order of their first occurrence
RECURSIVE Unique(_, _, _)
Unique(values, i, acc) ==
  IF i > Len(values) THEN acc
  ELSE Unique(values, i + 1,
              IF \E j \in 1..Len(acc) : acc[j] = values[i] THEN acc
              ELSE Append(acc, values[i]))

\* a loop that stops at the first shard that cannot be accessed
RECURSIVE MissingLoopFirst(_, _, _, _, _)
MissingLoopFirst(disk, dir, shardFiles, i, missingShards) ==
  IF i > Len(shardFiles) \/ Len(missingShards) > 0 THEN missingShards
  ELSE MissingLoopFirst(disk, dir, shardFiles, i + 1,
         IF [dir |-> dir, base |-> FromUtf8(shardFiles[i])] \in DOMAIN disk
         THEN missingShards ELSE Append(missingShards, shardFiles[i]))

\* the loop that collects the shards that cannot be accessed
RECURSIVE MissingLoop(_, _, _, _, _)
MissingLoop(disk, dir, shardFiles, i, missingShards) ==
  IF i > Len(shardFiles) THEN missingShards
  ELSE MissingLoop(disk, dir, shardFiles, i + 1,
         IF [dir |-> dir, base |-> FromUtf8(shardFiles[i])] \in DOMAIN disk
         THEN missingShards ELSE Append(missingShards, shardFiles[i]))

\* parts.join(', ')
RECURSIVE JoinComma(_)
JoinComma(parts) ==
  IF Len(parts) = 0 THEN <<>>
  ELSE IF Len(parts) = 1 THEN parts[1]
  ELSE parts[1] \o <<",", " ">> \o JoinComma(Tail(parts))

\* 'Missing shard files: '
MissingShardFiles ==
  <<"M", "i", "s", "s", "i", "n", "g", " ", "s", "h", "a", "r", "d", " ",
    "f", "i", "l", "e", "s", ":", " ">>

\* the events of the calls of parseHeader, one shard after the other
RECURSIVE ShardEvents(_, _)
ShardEvents(shardHeaders, i) ==
  IF i > Len(shardHeaders) THEN <<>>
  ELSE shardHeaders[i].events \o ShardEvents(shardHeaders, i + 1)

\* the loop that fills shardHeaderLengths and merges the metadata of the
\* shards into the metadata of the index: [metadata, shardHeaderLengths]
RECURSIVE ShardsLoop(_, _, _, _, _)
ShardsLoop(shardFiles, shardHeaders, i, metadata, shardHeaderLengths) ==
  IF i > Len(shardFiles)
  THEN [metadata |-> metadata, shardHeaderLengths |-> shardHeaderLengths]
  ELSE ShardsLoop(shardFiles, shardHeaders, i + 1,
                  Spread(metadata, shardHeaders[i].value[1].metadata),
                  Spread(shardHeaderLengths,
                         FromUtf8(shardFiles[i]) :> shardHeaders[i].value[1].headerLength))

\* the loop over the entries of weight_map: [error, tensors]
RECURSIVE WeightMapLoop(_, _, _, _, _)
WeightMapLoop(entries, i, shardFiles, shardHeaders, tensors) ==
  IF i > Len(entries) THEN [error |-> "", tensors |-> tensors]
  ELSE
    LET tensorName == entries[i].key
        shardFile == entries[i].info.v
        header == shardHeaders[CHOOSE j \in 1..Len(shardFiles) :
                                 shardFiles[j] = shardFile].value[1]
    IN IF ~Has(header.tensors, tensorName)
       THEN [error |-> "referenced in index but not found in shard", tensors |-> tensors]
       ELSE WeightMapLoop(entries, i + 1, shardFiles, shardHeaders,
              Put(tensors, tensorName,
                  [dtype |-> Get(header.tensors, tensorName).dtype,
                   shape |-> Get(header.tensors, tensorName).shape,
                   dataOffsets |-> Get(header.tensors, tensorName).dataOffsets,
                   shardFile |-> FromUtf8(shardFile)]))

\* { ...(index.metadata ?? {}) }
IndexMetadata(index) ==
  LET spread(metadata) ==
        IF metadata = NoObject \/ metadata[1].j # "obj" THEN <<>>
        ELSE MetadataLoop(metadata[1].v, 1, <<>>)
  IN spread(Field(index, INDEX_METADATA_KEY))

\* loadShardedModel(indexOrShardPath): [error, message, value, events];
\* message is the text of the error that lists the missing shards.  The
\* headers are parsed concurrently: firstRejection is the position of the
\* shard whose failure, if it fails, is the one that Promise.all reports.
\* Statement by statement: each step takes the values the statements before
\* it have bound
loadShardedModel(disk, indexOrShardPath, firstRejection) ==
  LET dir == indexOrShardPath.dir
      plain(o) ==
        [error |-> o.error, message |-> <<>>, value |-> o.value, events |-> o.events]
      \* the return
      withTensors(merged, loop, events) ==
        IF loop.error # "" THEN plain(Thrown(loop.error, events))
        ELSE plain(Returned([metadata |-> merged.metadata, tensors |-> loop.tensors,
                             shardHeaderLengths |-> merged.shardHeaderLengths], events))
      \* the two loops that build the unified tensor map
      withHeaders(index, weight_map, shardFiles, shardHeaders, events) ==
        IF \E i \in 1..Len(shardFiles) : shardHeaders[i].error # ""
        THEN plain(Thrown(
               shardHeaders[IF firstRejection <= Len(shardFiles)
                               /\ shardHeaders[firstRejection].error # ""
                            THEN firstRejection
                            ELSE CHOOSE i \in 1..Len(shardFiles) :
                                   shardHeaders[i].error # ""].error,
               events))
        ELSE withTensors(
               ShardsLoop(shardFiles, shardHeaders, 1, IndexMetadata(index), <<>>),
               WeightMapLoop(ObjectEntries(weight_map), 1, shardFiles, shardHeaders, <<>>),
               events)
      \* await Promise.all(shardFiles.map(... parseHeader(shardPath)))
      withParsed(index, weight_map, shardFiles, shardHeaders) ==
        withHeaders(index, weight_map, shardFiles, shardHeaders,
                    ShardEvents(shardHeaders, 1))
      \* the throw that lists the missing shards
      withMissing(index, weight_map, shardFiles, missingShards) ==
        IF Len(missingShards) > 0
        THEN [error |-> "Missing shard files",
              message |-> MissingShardFiles \o JoinComma(missingShards),
              value |-> NoObject, events |-> <<>>]
        ELSE withParsed(index, weight_map, shardFiles,
               [i \in 1..Len(shardFiles) |->
                  parseHeader(disk, [dir |-> dir, base |-> FromUtf8(shardFiles[i])])])
      \* shardFiles = [...new Set(Object.values(index.weight_map))]
      withShardFiles(index, weight_map, shardFiles) ==
        withMissing(index, weight_map, shardFiles,
                    MissingLoop(disk, dir, shardFiles, 1, <<>>))
      \* the check of index.weight_map
      withWeightMap(index, weight_map) ==
        IF weight_map = NoObject \/ weight_map[1].j \notin {"obj", "arr"}
        THEN plain(Thrown("Shard index missing weight_map", <<>>))
        ELSE withShardFiles(index, weight_map[1],
               Unique([i \in 1..Len(ObjectEntries(weight_map[1])) |->
                         ObjectEntries(weight_map[1])[i].info.v], 1, <<>>))
      \* index = JSON.parse(indexContent)
      withIndex(index) ==
        IF ~index.ok THEN plain(Thrown("Invalid shard index JSON", <<>>))
        ELSE withWeightMap(index.val, Field(index.val, WEIGHT_MAP_KEY))
      \* indexPath = await findIndexFile(indexOrShardPath, dir)
      withIndexPath(indexPath) ==
        IF indexPath = NoObject
        THEN plain(loadSingleFileAsUnified(disk, indexOrShardPath))
        ELSE IF indexPath[1] \notin DOMAIN disk THEN plain(Thrown("ENOENT", <<>>))
        ELSE withIndex(JSONparse(disk[indexPath[1]].text))
  IN withIndexPath(findIndexFile(disk, indexOrShardPath, dir))

----------------------------------------------------------------------------
(* readTensorData, readTensorFromUnifiedMap (parsers/tensorReader.ts) *)

\* readTensorData(filePath, headerLength, dataOffsets)
readTensorData(disk, filePath, headerLength, dataOffsets) ==
  LET start == dataOffsets[1]
      end == dataOffsets[2]
      byteLength == end - start
      fileOffset == 8 + headerLength + start
      events == <<Ev("alloc", filePath, byteLength, 0),
                  Ev("read", filePath, byteLength, fileOffset)>>
      withBuffer(buffer) ==
        IF Len(buffer) < byteLength THEN Thrown("Failed to read tensor data", events)
        ELSE Returned(buffer, events)
  IN IF filePath \notin DOMAIN disk THEN Thrown("ENOENT", <<>>)
     ELSE TryFinallyClose(filePath,
            IF byteLength < 0 THEN Thrown("RangeError", <<>>)
            ELSE withBuffer(FdRead(disk[filePath], byteLength, fileOffset)))

\* readTensorFromUnifiedMap(basePath, tensorMap, tensorName)
readTensorFromUnifiedMap(disk, basePath, tensorMap, tensorName) ==
  IF ~Has(tensorMap.tensors, tensorName) THEN Thrown("not found in tensor map", <<>>)
  ELSE LET tensorInfo == Get(tensorMap.tensors, tensorName)
           shardPath == resolvePath(basePath, tensorInfo.shardFile)
       IN IF tensorInfo.shardFile \notin DOMAIN tensorMap.shardHeaderLengths
          THEN Thrown("Header length not found for shard", <<>>)
          ELSE readTensorData(disk, shardPath,
                              tensorMap.shardHeaderLengths[tensorInfo.shardFile],
                              tensorInfo.dataOffsets)

----------------------------------------------------------------------------
(* readTensorsBatched (parsers/tensorDiff.ts) *)

\* the byte Buffer.alloc fills a buffer with
ZeroByte == "00"

\* bufferToFloat32(buf, dtype): element i is what the DataView getter of the
\* dtype reads from the bytes of element i; a dtype without getter leaves
\* the zeros of the new Float32Array
bufferToFloat32(buf, dtype) ==
  LET bpe == IF dtype \in DOMAIN DTYPE_BYTE_SIZE THEN DTYPE_BYTE_SIZE[dtype] ELSE 2
      get == CASE dtype = "F32" -> "getFloat32"
               [] dtype = "F64" -> "getFloat64"
               [] dtype = "BF16" -> "bf16ToFloat32"
               [] dtype = "F16" -> "float16ToFloat32"
               [] dtype = "I32" -> "getInt32"
               [] dtype = "I16" -> "getInt16"
               [] dtype = "I8" -> "getInt8"
               [] dtype = "U8" -> "getUint8"
               [] OTHER -> "zero"
  IN [i \in 1..(Len(buf) \div bpe) |->
        [get |-> get,
         bytes |-> IF get = "zero" THEN <<>>
                   ELSE SubSeq(buf, (i - 1) * bpe + 1, i * bpe)]]

\* the first loop: the names grouped by info.shardFile, the files in the
\* order they first occur; a name without tensor is skipped
RECURSIVE GroupLoop(_, _, _, _)
GroupLoop(tensors, names, i, byFile) ==
  IF i > Len(names) THEN byFile
  ELSE IF ~Has(tensors, names[i]) THEN GroupLoop(tensors, names, i + 1, byFile)
  ELSE LET grouped(shardFile) ==
             Put(byFile, shardFile,
                 Append(IF Has(byFile, shardFile) THEN Get(byFile, shardFile) ELSE <<>>,
                        names[i]))
       IN GroupLoop(tensors, names, i + 1, grouped(Get(tensors, names[i]).shardFile))

\* the loop over the names of one file, inside the try: the buffer is the
\* bytes read followed by the zeros of Buffer.alloc (bytesRead is not looked
\* at)
RECURSIVE NamesLoop(_, _, _, _, _, _, _, _)
NamesLoop(disk, tensors, shardFile, headerLen, tensorNames, i, result, events) ==
  IF i > Len(tensorNames) THEN Returned(result, events)
  ELSE
    LET withRange(info, byteStart, byteLen) ==
          LET withBuf(got) ==
                NamesLoop(disk, tensors, shardFile, headerLen, tensorNames, i + 1,
                          Put(result, tensorNames[i],
                              bufferToFloat32(got \o [k \in 1..(byteLen - Len(got)) |-> ZeroByte],
                                              info.dtype)),
                          events \o <<Ev("alloc", shardFile, byteLen, 0),
                                      Ev("read", shardFile, byteLen, byteStart)>>)
          IN IF byteLen < 0 THEN Thrown("RangeError", events)
             ELSE withBuf(FdRead(disk[shardFile], byteLen, byteStart))
        withInfo(info) ==
          withRange(info, 8 + headerLen + info.dataOffsets[1],
                    info.dataOffsets[2] - info.dataOffsets[1])
    IN withInfo(Get(tensors, tensorNames[i]))

\* the loop over the files: open, try { names } finally { close }
RECURSIVE FilesLoop(_, _, _, _, _, _, _)
FilesLoop(disk, tensors, headerLengths, byFile, i, result, events) ==
  IF i > Len(byFile) THEN Returned(result, events)
  ELSE
    LET shardFile == byFile[i].key
        headerLen == IF shardFile \in DOMAIN headerLengths THEN headerLengths[shardFile]
                     ELSE 0
        closed(r) ==
          IF r.error # "" THEN Thrown(r.error, events \o r.events)
          ELSE FilesLoop(disk, tensors, headerLengths, byFile, i + 1, r.value[1],
                         events \o r.events)
    IN IF shardFile \notin DOMAIN disk THEN Thrown("ENOENT", events)
       ELSE closed(TryFinallyClose(shardFile,
                     NamesLoop(disk, tensors, shardFile, headerLen, byFile[i].info, 1,
                               result, <<>>)))

\* readTensorsBatched(tensors, headerLengths, names)
readTensorsBatched(disk, tensors, headerLengths, names) ==
  FilesLoop(disk, tensors, headerLengths, GroupLoop(tensors, names, 1, <<>>), 1, <<>>, <<>>)

----------------------------------------------------------------------------
(* serialize (parsers/serializer.ts) *)

\* SerializedTensorInfo: data and dataProvider are optional
SerializedTensorInfo(dtype, shape, byteLength, data, dataProvider) ==
  [dtype |-> dtype, shape |-> shape, byteLength |-> byteLength,
   data |-> data, dataProvider |-> dataProvider]

\* the __metadata__ object of the header
MetadataObject(metadata) ==
  LET object(keys) ==
        JObj([i \in 1..Len(keys) |->
                [key |-> Utf8(keys[i]), info |-> JStr(Utf8(metadata[keys[i]]))]])
  IN object(SetToSeq(DOMAIN metadata))

\* the header entry of a tensor
HeaderEntry(dtype, shape, begin, end) ==
  JObj(<< [key |-> DTYPE_KEY, info |-> JStr(Utf8(dtype))],
          [key |-> SHAPE_KEY, info |-> JArr([d \in 1..Len(shape) |-> JNum(shape[d])])],
          [key |-> DATA_OFFSETS_KEY, info |-> JArr(<<JNum(begin), JNum(end)>>)] >>)

\* a header loop that lays every tensor out at offset 0
RECURSIVE OffsetsLoopFromZero(_, _, _, _, _)
OffsetsLoopFromZero(tensors, tensorNames, i, headerObj, currentOffset) ==
  IF i > Len(tensorNames)
  THEN [headerObj |-> headerObj, currentOffset |-> currentOffset]
  ELSE
    LET name == tensorNames[i]
        tensor == Get(tensors, name)
        dataSize == tensor.byteLength
    IN OffsetsLoopFromZero(tensors, tensorNames, i + 1,
         Put(headerObj, name, HeaderEntry(tensor.dtype, tensor.shape, 0, dataSize)),
         currentOffset + dataSize)

\* the loop that computes the offsets and fills the header object:
\* [headerObj, currentOffset]
RECURSIVE OffsetsLoop(_, _, _, _, _)
OffsetsLoop(tensors, tensorNames, i, headerObj, currentOffset) ==
  IF i > Len(tensorNames)
  THEN [headerObj |-> headerObj, currentOffset |-> currentOffset]
  ELSE
    LET name == tensorNames[i]
        tensor == Get(tensors, name)
        dataSize == tensor.byteLength
    IN OffsetsLoop(tensors, tensorNames, i + 1,
         Put(headerObj, name,
             HeaderEntry(tensor.dtype, tensor.shape, currentOffset,
                         currentOffset + dataSize)),
         currentOffset + dataSize)

\* await tensor.dataProvider(): the provider built by saveSurgeryResult reads
\* the tensor through a one-tensor map; a test provider can reject
CallDataProvider(disk, provider) ==
  IF provider.kind = "rejects" THEN Thrown("provider failed", <<>>)
  ELSE readTensorFromUnifiedMap(disk, provider.basePath, provider.pseudoMap,
                                provider.name)

\* a write loop that reports the bytes of the tensor just written instead of
\* the bytes written so far
RECURSIVE WriteLoopPerTensor(_, _, _, _, _, _, _, _, _, _)
WriteLoopPerTensor(disk, outputPath, tensors, tensorNames, i, totalBytesWritten, totalBytesExpected, onProgress, events, progress) ==
  IF i > Len(tensorNames)
  THEN [error |-> "", disk |-> disk, events |-> events, progress |-> progress]
  ELSE
    LET tensor == Get(tensors, tensorNames[i])
        out == disk[outputPath]
        \* buf = tensor.data or await tensor.dataProvider(), then the write
        withBuf(got) ==
          IF got.error # ""
          THEN [error |-> got.error, disk |-> disk, events |-> events \o got.events,
                progress |-> progress]
          ELSE WriteLoopPerTensor([disk EXCEPT ![outputPath] =
                            File(out.prefix, out.text, out.data \o got.value[1])],
                         outputPath, tensors, tensorNames, i + 1,
                         totalBytesWritten + Len(got.value[1]),
                         totalBytesExpected, onProgress,
                         events \o got.events
                           \o <<Ev("write", outputPath, Len(got.value[1]), 0)>>,
                         IF onProgress /\ totalBytesExpected > 0
                         THEN Append(progress,
                                     [written |-> Len(got.value[1]),
                                      expected |-> totalBytesExpected])
                         ELSE progress)
    IN withBuf(IF tensor.data # NoObject THEN Returned(tensor.data[1], <<>>)
               ELSE IF tensor.dataProvider # NoObject
                 THEN CallDataProvider(disk, tensor.dataProvider[1])
               ELSE Thrown("No data or dataProvider", <<>>))

\* the loop that writes the tensor data: [error, disk, events, progress]
RECURSIVE WriteLoop(_, _, _, _, _, _, _, _, _, _)
WriteLoop(disk, outputPath, tensors, tensorNames, i, totalBytesWritten, totalBytesExpected, onProgress, events, progress) ==
  IF i > Len(tensorNames)
  THEN [error |-> "", disk |-> disk, events |-> events, progress |-> progress]
  ELSE
    LET tensor == Get(tensors, tensorNames[i])
        out == disk[outputPath]
        \* buf = tensor.data or await tensor.dataProvider(), then the write
        withBuf(got) ==
          IF got.error # ""
          THEN [error |-> got.error, disk |-> disk, events |-> events \o got.events,
                progress |-> progress]
          ELSE WriteLoop([disk EXCEPT ![outputPath] =
                            File(out.prefix, out.text, out.data \o got.value[1])],
                         outputPath, tensors, tensorNames, i + 1,
                         totalBytesWritten + Len(got.value[1]),
                         totalBytesExpected, onProgress,
                         events \o got.events
                           \o <<Ev("write", outputPath, Len(got.value[1]), 0)>>,
                         IF onProgress /\ totalBytesExpected > 0
                         THEN Append(progress,
                                     [written |-> totalBytesWritten + Len(got.value[1]),
                                      expected |-> totalBytesExpected])
                         ELSE progress)
    IN withBuf(IF tensor.data # NoObject THEN Returned(tensor.data[1], <<>>)
               ELSE IF tensor.dataProvider # NoObject
                 THEN CallDataProvider(disk, tensor.dataProvider[1])
               ELSE Thrown("No data or dataProvider", <<>>))

\* serialize(input, outputPath): [error, disk, events, progress]; progress
\* holds the arguments of the onProgress calls, percent = written / expected
\* * 100.  Statement by statement: each step takes the values the statements
\* before it have bound
serialize(disk, input, outputPath) ==
  LET tensors == input.tensors
      opened == (outputPath :> File(<<>>, <<>>, <<>>)) @@ disk
      \* finally { await fd.close() }
      closed(loop) ==
        [error |-> loop.error, disk |-> loop.disk,
         events |-> TryFinallyClose(outputPath,
                      [error |-> loop.error, value |-> NoObject,
                       events |-> loop.events]).events,
         progress |-> loop.progress]
      \* fd = open(outputPath, 'w'); the writes of the prefix, the header and
      \* the tensors
      withFinalHeaderBuf(tensorNames, layout, paddedHeader, finalHeaderBufLength) ==
        closed(WriteLoop([opened EXCEPT ![outputPath] =
                            File(writeBigUInt64LE(finalHeaderBufLength), paddedHeader,
                                 <<>>)],
                         outputPath, tensors, tensorNames, 1, 0, layout.currentOffset,
                         input.onProgress,
                         <<Ev("write", outputPath, 8, 0),
                           Ev("write", outputPath, finalHeaderBufLength, 0)>>,
                         <<>>))
      \* finalHeaderBuf = Buffer.from(paddedHeader, 'utf-8')
      withPaddedHeader(tensorNames, layout, paddedHeader) ==
        withFinalHeaderBuf(tensorNames, layout, paddedHeader, ByteLength(paddedHeader))
      \* paddingLen and paddedHeader = headerJson + ' '.repeat(paddingLen)
      withHeaderBuf(tensorNames, layout, headerJson, headerBufLength) ==
        withPaddedHeader(tensorNames, layout,
          headerJson \o [p \in 1..((8 - (headerBufLength % 8)) % 8) |-> Punct(" ")])
      \* headerBuf = Buffer.from(headerJson, 'utf-8')
      withHeaderJson(tensorNames, layout, headerJson) ==
        withHeaderBuf(tensorNames, layout, headerJson, ByteLength(headerJson))
      \* headerJson = JSON.stringify(headerObj)
      withLayout(tensorNames, layout) ==
        withHeaderJson(tensorNames, layout, JSONstringify(JObj(layout.headerObj)))
      \* headerObj with __metadata__ first, then the loop over the sorted names
      withTensorNames(tensorNames) ==
        withLayout(tensorNames,
          OffsetsLoop(tensors, tensorNames, 1,
                      << [key |-> METADATA_KEY,
                          info |-> MetadataObject(input.metadata)] >>, 0))
  IN withTensorNames(ArraySort(ObjectKeys(tensors)))

----------------------------------------------------------------------------
(* saveSurgeryResult (surgery/saveSurgery.ts:18-77) *)

\* the history getter of the session: it returns an empty list
history == <<>>

\* the loop that builds the SerializationInput tensors
SaveTensors(currentState, originalBasePath) ==
  [i \in 1..Len(currentState.tensors) |->
     LET name == currentState.tensors[i].key
         info == currentState.tensors[i].info
         byteLength == info.dataOffsets[2] - info.dataOffsets[1]
     IN [key |-> name,
         info |-> SerializedTensorInfo(info.dtype, info.shape, byteLength, NoObject,
                    << [kind |-> "read", basePath |-> originalBasePath, name |-> name,
                        pseudoMap |->
                          [metadata |-> <<>>,
                           tensors |-> <<[key |-> name, info |-> info]>>,
                           shardHeaderLengths |-> currentState.shardHeaderLengths]] >>)]]

\* saveSurgeryResult(session, originalBasePath, originalMap, outputPath,
\* options), on the session (sts, idx); preserveMetadata is "true", "false"
\* or "undefined"
saveSurgeryResult(disk, sts, idx, originalBasePath, outputPath, options) ==
  LET currentState == sts[idx + 1]
      metadata ==
        IF options.preserveMetadata # "false" /\ Len(history) > 0
        THEN Spread(currentState.metadata,
                    ("model_surgeon.operations" :> "JSON.stringify(history)")
                      @@ ("model_surgeon.source" :> "originalBasePath"))
        ELSE currentState.metadata
  IN serialize(disk,
               [metadata |-> metadata,
                tensors |-> SaveTensors(currentState, originalBasePath),
                onProgress |-> options.onProgress],
               outputPath)

----------------------------------------------------------------------------
(* Test files (test/helpers/createTestSafetensors.ts) *)

TestTensor(name, dtype, shape, data) ==
  [name |-> name, dtype |-> dtype, shape |-> shape, data |-> data]

\* buildSafetensorsBuffer: the loop that lays the sorted tensors out
RECURSIVE BuildLoop(_, _, _, _, _)
BuildLoop(sorted, i, headerObj, offset, dataBuf) ==
  IF i > Len(sorted) THEN [headerObj |-> headerObj, dataBuf |-> dataBuf]
  ELSE
    LET t == sorted[i]
    IN BuildLoop(sorted, i + 1,
                 Put(headerObj, t.name,
                     HeaderEntry(t.dtype, t.shape, offset, offset + Len(t.data))),
                 offset + Len(t.data), dataBuf \o t.data)

\* createTestSafetensorsFile(tensors, metadata): the bytes of the file; the
\* header is not padded, and __metadata__ is written only when metadata has
\* a key
createTestSafetensorsFile(tensors, metadata) ==
  LET first == IF DOMAIN metadata # {}
               THEN << [key |-> METADATA_KEY, info |-> MetadataObject(metadata)] >>
               ELSE <<>>
      withHeaderJson(built, headerJson) ==
        File(writeBigUInt64LE(ByteLength(headerJson)), headerJson, built.dataBuf)
      withBuilt(built) == withHeaderJson(built, JSONstringify(JObj(built.headerObj)))
      withNames(names) ==
        withBuilt(BuildLoop([i \in 1..Len(names) |->
                               tensors[CHOOSE j \in 1..Len(tensors) :
                                         tensors[j].name = names[i]]],
                            1, first, 0, <<>>))
  IN withNames(ArraySort([i \in 1..Len(tensors) |-> tensors[i].name]))

\* Model A's file, a comparison model in the same directory under another
\* file name, and a comparison model in another directory whose file has the
\* name of Model A's file (the helper names every file model.safetensors)
PathA == [dir |-> "a", base |-> "model.safetensors"]

PathB == [dir |-> "a", base |-> "other.safetensors"]

PathTwin == [dir |-> "b", base |-> "model.safetensors"]

OutputPath == [dir |-> "a", base |-> "out.safetensors"]

TestDisk ==
  (PathA :> createTestSafetensorsFile(
              << TestTensor(K_m1_w, "U8", <<2>>, <<"a0", "a1">>),
                 TestTensor(K_m1_loraA, "U8", <<2>>, <<"a2", "a3">>),
                 TestTensor(K_m10_w, "U8", <<2>>, <<"a4", "a5">>) >>,
              [format |-> "pt"]))
  @@ (PathB :> createTestSafetensorsFile(
                 << TestTensor(K_m1_w, "I8", <<2>>, <<"b0", "b1">>),
                    TestTensor(K_m1_v, "I8", <<2>>, <<"b2", "b3">>) >>,
                 [format |-> "np"]))
  @@ (PathTwin :> createTestSafetensorsFile(
                    << TestTensor(K_m1_w, "BOOL", <<2>>, <<"t0", "t1">>) >>,
                    [format |-> "tf"]))

TestPaths == {PathA, PathB, PathTwin}

\* the UnifiedTensorMap of each test file
TestModels == [p \in TestPaths |-> loadSingleFileAsUnified(TestDisk, p).value[1]]

TestModel(path) == TestModels[path]

ComparisonPaths == {PathB, PathTwin}

SavePreserveMetadata == {"undefined", "false"}

----------------------------------------------------------------------------
(* Part 3: LoRA detection and the architecture tree (parsers/loraDetector.ts,
   parsers/treeBuilder.ts) *)

\* JavaScript values of the fields of an adapter config and of a pair:
\* undefined (also: the property is absent), null, a number
JsUndefined == [t |-> "undefined"]

JsNull == [t |-> "null"]

JsNumber(n) == [t |-> "number", v |-> n]

JsEmptyArray == [t |-> "array", v |-> <<>>]

\* a ?? b
Coalesce(a, b) == IF a.t \in {"undefined", "null"} THEN b ELSE a

WEIGHT == <<"w", "e", "i", "g", "h", "t">>

BASE_LAYER == <<"b", "a", "s", "e", "_", "l", "a", "y", "e", "r">>

PEFT_PREFIX ==
  <<"b", "a", "s", "e", "_", "m", "o", "d", "e", "l", ".", "m", "o", "d", "e", "l", ".">>

DEFAULT_ADAPTER == <<"d", "e", "f", "a", "u", "l", "t">>

BARS == <<"|", "|">>

\* LORA_PATTERN.exec(name) for /^(.+)\.lora_(A|B)(?:\.([^.]+))?\.weight$/: no
\* match, or the module path, the side and the adapter name (undefined
\* without the optional group).  The greedy (.+) takes the longest module
\* path, so the form without adapter name is tried first
LORA_PATTERN(name) ==
  LET withSegments(segments, n) ==
        IF /\ n >= 3
           /\ segments[n] = WEIGHT
           /\ segments[n - 1] \in {LORA_A, LORA_B}
           /\ Join(SubSeq(segments, 1, n - 2)) # EmptyStr
        THEN <<[modulePath |-> Join(SubSeq(segments, 1, n - 2)),
                ab |-> segments[n - 1][6], adapterName |-> Undefined]>>
        ELSE IF /\ n >= 4
                /\ segments[n] = WEIGHT
                /\ segments[n - 1] # EmptyStr
                /\ segments[n - 2] \in {LORA_A, LORA_B}
                /\ Join(SubSeq(segments, 1, n - 3)) # EmptyStr
        THEN <<[modulePath |-> Join(SubSeq(segments, 1, n - 3)),
                ab |-> segments[n - 2][6], adapterName |-> segments[n - 1]]>>
        ELSE NoObject
  IN withSegments(Split(name), Len(Split(name)))

\* BASE_LAYER_PATTERN.exec(name) for /^(.+)\.base_layer\.weight$/: no match or
\* the module path
BASE_LAYER_PATTERN(name) ==
  LET withSegments(segments, n) ==
        IF /\ n >= 3
           /\ segments[n] = WEIGHT
           /\ segments[n - 1] = BASE_LAYER
           /\ Join(SubSeq(segments, 1, n - 2)) # EmptyStr
        THEN <<Join(SubSeq(segments, 1, n - 2))>>
        ELSE NoObject
  IN withSegments(Split(name), Len(Split(name)))

\* key.split('||') and the destructuring of its first two parts
SplitBars(key) ==
  LET rest(i) == Substring(key, i + 2)
      second(tail) == IF IndexOf(tail, BARS) = -1 THEN tail
                      ELSE SubSeq(tail, 1, IndexOf(tail, BARS))
  IN IF IndexOf(key, BARS) = -1 THEN <<key, Undefined>>
     ELSE <<SubSeq(key, 1, IndexOf(key, BARS)), second(rest(IndexOf(key, BARS)))>>

\* an inferRank that does not compare the dimensions
inferRankFirstDimension(aShape, bShape) ==
  IF Len(aShape) >= 2 /\ Len(bShape) >= 2 THEN JsNumber(aShape[1]) ELSE JsNull

\* inferRank(aShape, bShape)
inferRank(aShape, bShape) ==
  IF Len(aShape) >= 2 /\ Len(bShape) >= 2 /\ aShape[1] = bShape[Len(bShape)]
  THEN JsNumber(aShape[1])
  ELSE JsNull

\* the first loop of detectLoraAdapters: the halves by module path and
\* adapter name, and the module paths that have a base_layer.weight
RECURSIVE CollectLoop(_, _, _, _)
CollectLoop(tensors, i, loraEntries, baseLayerPaths) ==
  IF i > Len(tensors)
  THEN [loraEntries |-> loraEntries, baseLayerPaths |-> baseLayerPaths]
  ELSE
    LET name == tensors[i].key
        half == [name |-> name, info |-> tensors[i].info]
        withMatch(match) ==
          LET key == match.modulePath \o BARS
                       \o (IF match.adapterName = Undefined THEN DEFAULT_ADAPTER
                           ELSE match.adapterName)
              entry == IF Has(loraEntries, key) THEN Get(loraEntries, key)
                       ELSE [a |-> NoObject, b |-> NoObject]
          IN CollectLoop(tensors, i + 1,
                         Put(loraEntries, key,
                             IF match.ab = "A" THEN [entry EXCEPT !.a = <<half>>]
                             ELSE [entry EXCEPT !.b = <<half>>]),
                         baseLayerPaths)
        withBaseMatch(baseMatch) ==
          CollectLoop(tensors, i + 1, loraEntries,
                      IF baseMatch = NoObject THEN baseLayerPaths
                      ELSE baseLayerPaths \cup {baseMatch[1]})
        matched(match) == IF match # NoObject THEN withMatch(match[1])
                          ELSE withBaseMatch(BASE_LAYER_PATTERN(name))
    IN matched(LORA_PATTERN(name))

\* adapterConfig?.field
ConfigField(adapterConfig, field) ==
  IF adapterConfig = NoObject THEN JsUndefined ELSE adapterConfig[1][field]

\* the second loop: a pair for every entry that has both halves
RECURSIVE PairLoop(_, _, _, _, _)
PairLoop(loraEntries, baseLayerPaths, adapterConfig, i, adapterMap) ==
  IF i > Len(loraEntries) THEN adapterMap
  ELSE
    LET entry == loraEntries[i].info
        modulePath == SplitBars(loraEntries[i].key)[1]
        adapterName == SplitBars(loraEntries[i].key)[2]
        stripped == IF StartsWith(modulePath, PEFT_PREFIX)
                    THEN Substring(modulePath, Len(PEFT_PREFIX))
                    ELSE modulePath
        baseTensorName == IF modulePath \in baseLayerPaths
                          THEN modulePath \o DOT \o BASE_LAYER \o DOT \o WEIGHT
                          ELSE stripped \o DOT \o WEIGHT
        pair == [baseTensorName |-> baseTensorName,
                 adapterName |-> adapterName,
                 loraAName |-> entry.a[1].name,
                 loraBName |-> entry.b[1].name,
                 rank |-> Coalesce(ConfigField(adapterConfig, "r"),
                                   inferRank(entry.a[1].info.shape, entry.b[1].info.shape)),
                 alpha |-> Coalesce(ConfigField(adapterConfig, "lora_alpha"), JsNull),
                 aShape |-> entry.a[1].info.shape,
                 bShape |-> entry.b[1].info.shape]
        group == IF Has(adapterMap, modulePath) THEN Get(adapterMap, modulePath)
                 ELSE <<>>
    IN IF entry.a = NoObject \/ entry.b = NoObject
       THEN PairLoop(loraEntries, baseLayerPaths, adapterConfig, i + 1, adapterMap)
       ELSE PairLoop(loraEntries, baseLayerPaths, adapterConfig, i + 1,
                     Put(adapterMap, modulePath, Append(group, pair)))

\* detectLoraAdapters(tensors, adapterConfig): the LoraAdapterMap, the lists
\* of pairs by module path
detectLoraAdapters(tensors, adapterConfig) ==
  LET collected(c) == PairLoop(c.loraEntries, c.baseLayerPaths, adapterConfig, 1, <<>>)
  IN collected(CollectLoop(tensors, 1, <<>>, {}))

\* an AdapterConfig
AdapterConfig(r, lora_alpha, target_modules, lora_dropout) ==
  [r |-> r, lora_alpha |-> lora_alpha, target_modules |-> target_modules,
   lora_dropout |-> lora_dropout]

\* { r: config.r ?? 0, ..., ...config }: the spread writes every property
\* the parsed object has over the default
WithDefault(value, default) ==
  IF value.t = "undefined" THEN default ELSE value

\* parseAdapterConfig(safetensorsPath) with the adapter_config.json next to
\* the file: absent, not JSON, or an object
parseAdapterConfig(sideFile) ==
  IF sideFile.kind \in {"absent", "corrupt"} THEN NoObject
  ELSE <<AdapterConfig(WithDefault(sideFile.config.r, JsNumber(0)),
                       WithDefault(sideFile.config.lora_alpha, JsNumber(0)),
                       WithDefault(sideFile.config.target_modules, JsEmptyArray),
                       WithDefault(sideFile.config.lora_dropout, JsNumber(0)))>>

----------------------------------------------------------------------------
(* buildArchitectureTree (parsers/treeBuilder.ts) *)

\* an ArchitectureNode; the tree is the sequence of its nodes, the root
\* first, and children holds the positions of the child nodes in order;
\* insertionIndex and blockIndex are optional
ArchitectureNode(name, fullPath, type, tensorInfo, insertionIndex, blockIndex) ==
  [name |-> name, fullPath |-> fullPath, type |-> type, children |-> <<>>,
   tensorInfo |-> tensorInfo, insertionIndex |-> insertionIndex,
   blockIndex |-> blockIndex, adapters |-> <<>>]

ROOT_NAME == <<"m", "o", "d", "e", "l">>

Digits == {"0", "1", "2", "3", "4", "5", "6", "7", "8", "9"}

\* /^\d+$/.test(segment)
isNumericSegment(segment) ==
  Len(segment) > 0 /\ \A i \in 1..Len(segment) : segment[i] \in Digits

\* parseInt(segment, 10) of a numeric segment
RECURSIVE parseInt(_)
parseInt(segment) ==
  IF Len(segment) = 0 THEN 0
  ELSE 10 * parseInt(SubSeq(segment, 1, Len(segment) - 1))
         + (CHOOSE d \in 0..9 : DecimalDigits(d) = <<segment[Len(segment)]>>)

\* classifyNodeType(segment)
classifyNodeType(segment) == IF isNumericSegment(segment) THEN "block" ELSE "component"

\* LORA_PATTERN.test(name) for /\.lora_(A|B)(?:\.[^.]+)?\.weight$/
TreeLoraPattern(name) ==
  LET withSegments(segments, n) ==
        \/ n >= 3 /\ segments[n] = WEIGHT /\ segments[n - 1] \in {LORA_A, LORA_B}
        \/ /\ n >= 4
           /\ segments[n] = WEIGHT
           /\ segments[n - 1] # EmptyStr
           /\ segments[n - 2] \in {LORA_A, LORA_B}
  IN withSegments(Split(name), Len(Split(name)))

\* current.children.find((c) => c.name === segment): the position of the
\* node, 0 when there is none
FindChild(nodes, current, segment) ==
  LET hits == {k \in 1..Len(nodes[current].children) :
                 nodes[nodes[current].children[k]].name = segment}
  IN IF hits = {} THEN 0
     ELSE nodes[current].children[CHOOSE k \in hits : \A h \in hits : k <= h]

\* current.children.push(node)
PushChild(nodes, current, node) ==
  Append([nodes EXCEPT ![current].children = Append(@, Len(nodes) + 1)], node)

\* the loop of insertTensor over the segments of a name
RECURSIVE SegmentLoop(_, _, _, _, _, _)
SegmentLoop(nodes, segments, i, current, info, insertionCounter) ==
  LET segment == segments[i]
      currentPath == Join(SubSeq(segments, 1, i))
      found(child) ==
        IF child # 0
        THEN SegmentLoop(nodes, segments, i + 1, child, info, insertionCounter)
        ELSE SegmentLoop(
               PushChild(nodes, current,
                         ArchitectureNode(segment, currentPath, classifyNodeType(segment),
                                          NoObject, <<insertionCounter>>,
                                          IF classifyNodeType(segment) = "block"
                                             /\ isNumericSegment(segment)
                                          THEN <<parseInt(segment)>> ELSE NoObject)),
               segments, i + 1, Len(nodes) + 1, info, insertionCounter)
  IN IF i > Len(segments) THEN nodes
     ELSE IF i = Len(segments)
       THEN PushChild(nodes, current,
                      ArchitectureNode(segment, currentPath, "parameter",
                                       <<[dtype |-> info.dtype, shape |-> info.shape]>>,
                                       <<insertionCounter>>, NoObject))
     ELSE found(FindChild(nodes, current, segment))

\* insertTensor(root, fullName, info, insertionCounter)
insertTensor(nodes, fullName, info, insertionCounter) ==
  SegmentLoop(nodes, Split(fullName), 1, 1, info, insertionCounter)

\* the names of the halves of all pairs of a LoraAdapterMap
LoraTensorNames(loraMap) ==
  UNION { UNION { {loraMap[i].info[j].loraAName, loraMap[i].info[j].loraBName} :
                    j \in 1..Len(loraMap[i].info) } :
            i \in 1..Len(loraMap) }

\* the loop over Object.entries(tensors)
RECURSIVE InsertLoop(_, _, _, _, _)
InsertLoop(nodes, tensors, i, loraTensorNames, insertionCounter) ==
  IF i > Len(tensors) THEN nodes
  ELSE IF tensors[i].key \in loraTensorNames \/ TreeLoraPattern(tensors[i].key)
    THEN InsertLoop(nodes, tensors, i + 1, loraTensorNames, insertionCounter)
  ELSE InsertLoop(insertTensor(nodes, tensors[i].key, tensors[i].info, insertionCounter),
                  tensors, i + 1, loraTensorNames, insertionCounter + 1)

\* the walk of attachLoraAdapters: the position of the node of the module
\* path, 0 when a segment has no node
RECURSIVE WalkLoop(_, _, _, _)
WalkLoop(nodes, segments, i, current) ==
  IF i > Len(segments) THEN current
  ELSE LET found(child) == IF child = 0 THEN 0
                           ELSE WalkLoop(nodes, segments, i + 1, child)
       IN found(FindChild(nodes, current, segments[i]))

\* current.adapters[pair.adapterName] = pair for the pairs
RECURSIVE AdaptersLoop(_, _, _)
AdaptersLoop(adapters, pairs, j) ==
  IF j > Len(pairs) THEN adapters
  ELSE AdaptersLoop(Put(adapters, pairs[j].adapterName, pairs[j]), pairs, j + 1)

\* attachLoraAdapters(root, modulePath, pairs) for every entry of the map
RECURSIVE AttachLoop(_, _, _)
AttachLoop(nodes, loraMap, i) ==
  IF i > Len(loraMap) THEN nodes
  ELSE LET attached(current) ==
             IF current = 0 THEN nodes
             ELSE [nodes EXCEPT ![current].adapters = AdaptersLoop(@, loraMap[i].info, 1)]
       IN AttachLoop(attached(WalkLoop(nodes, Split(loraMap[i].key), 1, 1)),
                     loraMap, i + 1)

\* the comparator of sortTree
Compare(a, b) ==
  IF a.blockIndex # NoObject /\ b.blockIndex # NoObject
  THEN a.blockIndex[1] - b.blockIndex[1]
  ELSE IF a.blockIndex # NoObject THEN -1
  ELSE IF b.blockIndex # NoObject THEN 1
  ELSE (IF a.insertionIndex = NoObject THEN 0 ELSE a.insertionIndex[1])
         - (IF b.insertionIndex = NoObject THEN 0 ELSE b.insertionIndex[1])

\* children.sort(comparator): the sort is stable, a child goes behind the
\* children that compare equal to it
RECURSIVE SortChildren(_, _)
SortChildren(nodes, children) ==
  IF Len(children) <= 1 THEN children
  ELSE LET last == children[Len(children)]
           sorted(front) ==
             SelectSeq(front, LAMBDA c : Compare(nodes[c], nodes[last]) <= 0)
               \o <<last>>
               \o SelectSeq(front, LAMBDA c : Compare(nodes[c], nodes[last]) > 0)
       IN sorted(SortChildren(nodes, SubSeq(children, 1, Len(children) - 1)))

\* sortTree(root): the children of every node are sorted
sortTree(nodes) ==
  [id \in 1..Len(nodes) |->
     [nodes[id] EXCEPT !.children = SortChildren(nodes, @)]]

\* buildArchitectureTree(tensors, loraMap)
buildArchitectureTree(tensors, loraMap) ==
  LET root == ArchitectureNode(ROOT_NAME, EmptyStr, "root", NoObject, NoObject, NoObject)
      inserted(nodes) == sortTree(AttachLoop(nodes, loraMap, 1))
  IN inserted(InsertLoop(<<root>>, tensors, 1, LoraTensorNames(loraMap), 0))

----------------------------------------------------------------------------
(* WorkerPool (workers/workerPool.ts) *)

\* constructor(maxWorkers = 2, workerScript?)
DEFAULT_MAX_WORKERS == 2

\* the fields of a new pool; workers are the positions of their threads,
\* tasks the positions of their promises, workerPending a Map
WorkerPool(maxWorkers) ==
  [workers |-> <<>>, availableWorkers |-> <<>>, taskQueue |-> <<>>,
   workerPending |-> <<>>, maxWorkers |-> maxWorkers, terminated |-> FALSE]

\* new Worker(workerScript): a thread with the tasks posted to it that it
\* has not answered; it is "online", "stopping" once terminate() was called
\* on it, "errored" after an uncaught exception, "exited" at last
Thread == [state |-> "online", inbox |-> <<>>]

\* the pool together with the threads, the promises of the tasks and the
\* order the tasks were posted in
World(p, th, pr, st) == [pool |-> p, threads |-> th, promises |-> pr, started |-> st]

\* pending.resolve(result) or pending.reject(err): a promise is "pending",
\* "resolved" or rejected with the message of its error, and a settled
\* promise keeps its outcome
Settle(pr, task, outcome) ==
  IF pr[task] = "pending" THEN [pr EXCEPT ![task] = outcome] ELSE pr

\* worker.postMessage(task): a thread that is no longer running drops it
postMessage(th, worker, task) ==
  IF th[worker].state \in {"online", "stopping"}
  THEN [th EXCEPT ![worker].inbox = Append(@, task)]
  ELSE th

\* runTask(worker, task, pending)
runTask(w, worker, task) ==
  [w EXCEPT !.pool.workerPending = Put(@, worker, task),
            !.threads = postMessage(@, worker, task),
            !.started = Append(@, task)]

\* spawnWorker(): the new worker is the last of workers
spawnWorker(w) ==
  [w EXCEPT !.threads = Append(@, Thread),
            !.pool.workers = Append(@, Len(w.threads) + 1)]

\* a spawnWorker() that is not held to the limit of the pool
getAvailableWorkerUnlimited(w) ==
  IF Len(w.pool.availableWorkers) > 0
  THEN [world |-> [w EXCEPT !.pool.availableWorkers = SubSeq(@, 1, Len(@) - 1)],
        worker |-> w.pool.availableWorkers[Len(w.pool.availableWorkers)]]
  ELSE [world |-> spawnWorker(w), worker |-> Len(w.threads) + 1]

\* getAvailableWorker(): worker 0 is null
getAvailableWorker(w) ==
  IF Len(w.pool.availableWorkers) > 0
  THEN [world |-> [w EXCEPT !.pool.availableWorkers = SubSeq(@, 1, Len(@) - 1)],
        worker |-> w.pool.availableWorkers[Len(w.pool.availableWorkers)]]
  ELSE IF Len(w.pool.workers) < w.pool.maxWorkers
  THEN [world |-> spawnWorker(w), worker |-> Len(w.threads) + 1]
  ELSE [world |-> w, worker |-> 0]

\* execute(taskType, payload): the promise of the call is the next of
\* promises; a terminated pool throws, which rejects it at once
execute(w) ==
  LET task == Len(w.promises) + 1
      accepted == [w EXCEPT !.promises = Append(@, "pending")]
      got == getAvailableWorker(accepted)
  IN IF w.pool.terminated
     THEN [w EXCEPT !.promises = Append(@, "WorkerPool has been terminated")]
     ELSE IF got.worker # 0
     THEN runTask(got.world, got.worker, task)
     ELSE [accepted EXCEPT !.pool.taskQueue = Append(@, task)]

\* onWorkerFree(worker)
onWorkerFree(w, worker) ==
  IF Len(w.pool.taskQueue) > 0
  THEN runTask([w EXCEPT !.pool.taskQueue = Tail(@)], worker, Head(w.pool.taskQueue))
  ELSE [w EXCEPT !.pool.availableWorkers = Append(@, worker)]

\* removeWorker(worker)
removeWorker(w, worker) ==
  [w EXCEPT !.pool.workers = SelectSeq(@, LAMBDA x : x # worker),
            !.pool.availableWorkers =
              LET availIdx == IndexOf(@, <<worker>>)
              IN IF availIdx >= 0
                 THEN SubSeq(@, 1, availIdx) \o SubSeq(@, availIdx + 2, Len(@))
                 ELSE @]

\* processQueue()
RECURSIVE processQueue(_)
processQueue(w) ==
  IF Len(w.pool.taskQueue) > 0
  THEN LET got == getAvailableWorker(w)
       IN IF got.worker = 0 THEN w
          ELSE processQueue(runTask([got.world EXCEPT !.pool.taskQueue = Tail(@)],
                                    got.worker, Head(w.pool.taskQueue)))
  ELSE w

\* const pending = this.workerPending.get(worker);
\* this.workerPending.delete(worker); if (pending) { settle }
TakePending(w, worker, outcome) ==
  IF Has(w.pool.workerPending, worker)
  THEN [w EXCEPT !.pool.workerPending = Delete(@, worker),
                 !.promises = Settle(@, Get(w.pool.workerPending, worker), outcome)]
  ELSE w

\* worker.on('message', ...): a result with __error rejects
OnMessage(w, worker, isError) ==
  onWorkerFree(TakePending(w, worker, IF isError THEN "result.__error" ELSE "resolved"),
               worker)

\* worker.on('error', ...)
OnError(w, worker) ==
  processQueue(removeWorker(TakePending(w, worker, "err"), worker))

\* worker.on('exit', ...)
OnExit(w, worker, code) ==
  IF code # 0 /\ ~w.pool.terminated
  THEN processQueue(removeWorker(TakePending(w, worker, "Worker exited with code"),
                                   worker))
  ELSE w

\* for (const x of tasks) pending.reject(new Error('WorkerPool terminated'))
RECURSIVE RejectLoop(_, _, _)
RejectLoop(pr, tasks, i) ==
  IF i > Len(tasks) THEN pr
  ELSE RejectLoop(Settle(pr, tasks[i], "WorkerPool terminated"), tasks, i + 1)

\* workers.map((w) => w.terminate()): the threads that run are stopping
TerminateWorkers(th, workers) ==
  [x \in 1..Len(th) |->
     IF th[x].state = "online" /\ \E i \in 1..Len(workers) : workers[i] = x
     THEN [th[x] EXCEPT !.state = "stopping"]
     ELSE th[x]]

\* a terminate() that leaves the tasks in flight to their workers
terminateQueuedOnly(w) ==
  [w EXCEPT !.pool.terminated = TRUE,
            !.promises = RejectLoop(@, w.pool.taskQueue, 1),
            !.pool.taskQueue = <<>>,
            !.threads = TerminateWorkers(@, w.pool.workers)]

\* terminate() up to its await
terminate(w) ==
  [w EXCEPT !.pool.terminated = TRUE,
            !.promises =
              RejectLoop(RejectLoop(@, w.pool.taskQueue, 1),
                         [i \in 1..Len(w.pool.workerPending) |->
                            w.pool.workerPending[i].info], 1),
            !.pool.taskQueue = <<>>,
            !.pool.workerPending = <<>>,
            !.threads = TerminateWorkers(@, w.pool.workers)]

\* terminate() after its await: this.workers = []; this.availableWorkers = []
terminateReturn(w) ==
  [w EXCEPT !.pool.workers = <<>>, !.pool.availableWorkers = <<>>]

----------------------------------------------------------------------------
(* State machine *)

\* the record kept of the last call: the method or handler, its arguments,
\* the value returned ("void", "true", "false"; for the handler, the success
\* flag of the posted surgeryResult), the error message, and the length
\* of the state list and the cursor when the call was made
Call(op, operation, ret, error) ==
  [op |-> op, operation |-> operation, ret |-> ret, error |-> error,
   before |-> [length |-> Len(states), index |-> currentIndex]]

\* a direct call of a session method with its arguments
Args(targetPath, newName) ==
  [operationType |-> "", targetPath |-> targetPath, newName |-> newName,
   sourceModel |-> "undefined"]

NoArgs == Args(Undefined, Undefined)

\* no model was loaded and no load is under way
InitLoads ==
  /\ currentModelA = NoObject
  /\ loads = <<>>

\* workerPool = new WorkerPool(maxWorkers) and nothing was submitted
InitPool(maxWorkers) ==
  /\ pool = WorkerPool(maxWorkers)
  /\ threads = <<>>
  /\ promises = <<>>
  /\ started = <<>>
  /\ terminateCall = "none"

\* room for one more state after the cursor
CanPush == sessionActive /\ currentIndex + 2 <= MaxStates

(* A SurgerySession driven through its public methods, as its unit tests
   drive it (SurgerySession.test.ts); Model B is the replacement source *)

Init ==
  /\ InitLoads
  /\ InitPool(DEFAULT_MAX_WORKERS)
  /\ \E m \in OpenableModels :
       /\ sessionActive = TRUE
       /\ states = <<OriginalState(m)>>
       /\ currentIndex = 0
       /\ loadedModel = <<m>>
       /\ currentModelB = NoObject
       /\ lastCall = [op |-> "new", operation |-> NoArgs, ret |-> "void", error |-> "",
                      before |-> [length |-> 0, index |-> -1]]

Undo ==
  /\ UNCHANGED <<hostVars, poolVars>>
  /\ /\ sessionActive
     /\ LET r == undo(states, currentIndex)
        IN /\ currentIndex' = r.currentIndex
           /\ lastCall' = Call("undo", NoArgs, IF r.ret THEN "true" ELSE "false", "")
     /\ UNCHANGED <<sessionActive, states, loadedModel, currentModelB>>

Redo ==
  /\ UNCHANGED <<hostVars, poolVars>>
  /\ /\ sessionActive
     /\ LET r == redo(states, currentIndex)
        IN /\ currentIndex' = r.currentIndex
           /\ lastCall' = Call("redo", NoArgs, IF r.ret THEN "true" ELSE "false", "")
     /\ UNCHANGED <<sessionActive, states, loadedModel, currentModelB>>

\* the effect of a mutating session method on the session
Apply(r, name, args) ==
  /\ states' = r.states
  /\ currentIndex' = r.currentIndex
  /\ lastCall' = Call(name, args, "void", "")
  /\ UNCHANGED <<sessionActive, loadedModel, currentModelB>>

RenameComponent ==
  /\ UNCHANGED <<hostVars, poolVars>>
  /\ /\ CanPush
     /\ \E tp \in TargetPaths, nn \in NewNames :
          Apply(renameComponent(states, currentIndex, tp, nn),
                "renameComponent", Args(tp, nn))

RemoveTensor ==
  /\ UNCHANGED <<hostVars, poolVars>>
  /\ /\ CanPush
     /\ \E tp \in TargetPaths :
          Apply(removeTensor(states, currentIndex, tp),
                "removeTensor", Args(tp, Undefined))

RemoveLoraAdapter ==
  /\ UNCHANGED <<hostVars, poolVars>>
  /\ /\ CanPush
     /\ \E tp \in TargetPaths :
          Apply(removeLoraAdapter(states, currentIndex, tp),
                "removeLoraAdapter", Args(tp, Undefined))

RenameLoraAdapter ==
  /\ UNCHANGED <<hostVars, poolVars>>
  /\ /\ CanPush
     /\ \E tp \in TargetPaths, np \in NewAdapterPrefixes :
          Apply(renameLoraAdapter(states, currentIndex, tp, np),
                "renameLoraAdapter", Args(tp, np))

ReplaceComponent ==
  /\ UNCHANGED <<hostVars, poolVars>>
  /\ /\ CanPush
     /\ \E tp \in TargetPaths :
          Apply(replaceComponent(states, currentIndex, tp, ModelB.tensors,
                                 ModelB.shardHeaderLengths),
                "replaceComponent", Args(tp, Undefined))

Next ==
  \/ Undo
  \/ Redo
  \/ RenameComponent
  \/ RemoveTensor
  \/ RemoveLoraAdapter
  \/ RenameLoraAdapter
  \/ ReplaceComponent

Spec == Init /\ [][Next]_vars

(* The extension host: models are opened, a comparison model is loaded and
   performSurgery messages are handled (the host has no undo or redo
   message) *)

InitHost ==
  /\ InitLoads
  /\ InitPool(DEFAULT_MAX_WORKERS)
  /\ /\ sessionActive = FALSE
     /\ states = <<>>
     /\ currentIndex = -1
     /\ loadedModel = NoObject
     /\ currentModelB = NoObject
     /\ lastCall = [op |-> "none", operation |-> NoArgs, ret |-> "void", error |-> "",
                    before |-> [length |-> 0, index |-> -1]]

\* currentSurgerySession = new SurgerySession(unifiedModel)
NewSession ==
  /\ UNCHANGED <<hostVars, poolVars>>
  /\ \E m \in OpenableModels :
       /\ sessionActive' = TRUE
       /\ states' = <<OriginalState(m)>>
       /\ currentIndex' = 0
       /\ loadedModel' = <<m>>
       /\ lastCall' = Call("new", NoArgs, "void", "")
       /\ UNCHANGED currentModelB

\* currentModelB = { tensors, shardHeaderLengths }
LoadComparison ==
  /\ UNCHANGED <<hostVars, poolVars>>
  /\ /\ sessionActive
     /\ currentModelB' = <<ModelB>>
     /\ lastCall' = Call("loadComparison", NoArgs, "void", "")
     /\ UNCHANGED <<sessionActive, states, currentIndex, loadedModel>>

\* a performSurgery message arrives and its handler runs to completion
PerformSurgery ==
  /\ UNCHANGED <<hostVars, poolVars>>
  /\ \E op \in Operations :
       IF ~sessionActive
       THEN /\ lastCall' = Call("performSurgery", op, "false", "No active surgery session")
            /\ UNCHANGED <<sessionActive, states, currentIndex, loadedModel, currentModelB>>
       ELSE LET r == performSurgerySwitch(states, currentIndex, currentModelB, op)
            IN /\ r.error = "" => currentIndex + 2 <= MaxStates
               /\ states' = r.session.states
               /\ currentIndex' = r.session.currentIndex
               /\ lastCall' = Call("performSurgery", op,
                                   IF r.error = "" THEN "true" ELSE "false", r.error)
               /\ UNCHANGED <<sessionActive, loadedModel, currentModelB>>

NextHost ==
  \/ NewSession
  \/ LoadComparison
  \/ PerformSurgery

SpecHost == InitHost /\ [][NextHost]_vars

(* A session on Model A's test file that is edited and saved, as
   saveSurgery.test.ts drives it; the comparison model of a replacement is
   one of the other test files *)

InitSave ==
  /\ InitLoads
  /\ InitPool(DEFAULT_MAX_WORKERS)
  /\ /\ sessionActive = TRUE
     /\ loadedModel = <<TestModel(PathA)>>
     /\ states = <<OriginalState(loadedModel[1])>>
     /\ currentIndex = 0
     /\ currentModelB = NoObject
     /\ lastCall = [op |-> "new", operation |-> NoArgs, ret |-> "void", error |-> "",
                    before |-> [length |-> 0, index |-> -1]]

ReplaceFromFile ==
  /\ UNCHANGED <<hostVars, poolVars>>
  /\ /\ CanPush
     /\ \E tp \in {P_m1}, source \in ComparisonPaths :
          LET replaceWith(modelB) ==
                Apply(replaceComponent(states, currentIndex, tp, modelB.tensors,
                                       modelB.shardHeaderLengths),
                      "replaceComponent", Args(tp, Undefined))
          IN replaceWith(TestModel(source))

\* saveSurgeryResult(session, PathA, originalMap, OutputPath, options): the
\* record of the call also holds the file found at OutputPath afterwards,
\* the events of the call and the progress reported
Save ==
  /\ UNCHANGED <<hostVars, poolVars>>
  /\ /\ sessionActive
     /\ \E pm \in SavePreserveMetadata :
          LET saved(r) ==
                lastCall' = [op |-> "saveSurgeryResult",
                             operation |-> [preserveMetadata |-> pm],
                             ret |-> "void", error |-> r.error,
                             before |-> [length |-> Len(states), index |-> currentIndex],
                             written |-> r.disk[OutputPath],
                             events |-> r.events, progress |-> r.progress]
          IN saved(saveSurgeryResult(TestDisk, states, currentIndex, PathA, OutputPath,
                                     [preserveMetadata |-> pm, onProgress |-> TRUE]))
     /\ UNCHANGED <<sessionActive, states, currentIndex, loadedModel, currentModelB>>

NextSave ==
  \/ Undo
  \/ Redo
  \/ RenameComponent
  \/ RemoveTensor
  \/ RemoveLoraAdapter
  \/ RenameLoraAdapter
  \/ ReplaceFromFile
  \/ Save

SpecSave == InitSave /\ [][NextSave]_vars

(* Calls of the file operations on the test disk: each step is one call
   that runs to completion, and lastCall keeps its arguments, the error it
   threw, what it returned or wrote and the events on its file handles *)

InitFiles ==
  /\ InitLoads
  /\ InitPool(DEFAULT_MAX_WORKERS)
  /\ /\ sessionActive = FALSE
     /\ states = <<>>
     /\ currentIndex = -1
     /\ loadedModel = NoObject
     /\ currentModelB = NoObject
     /\ lastCall = [op |-> "none", error |-> ""]

\* the caller awaits each call: no call is made while the outcome of the
\* call before it has not been taken
Idle == lastCall.op = "none"

Await ==
  /\ UNCHANGED <<hostVars, poolVars>>
  /\ /\ ~Idle
     /\ lastCall' = [op |-> "none", error |-> ""]
     /\ UNCHANGED <<sessionActive, states, currentIndex, loadedModel, currentModelB>>

\* the longest tensor data of a serialized input, in bytes
MaxDataLen == 2

\* the properties of input.tensors in insertion order, with their dtypes and
\* the bytes their data are cut from
SerializeNames == <<K_m10_w, K_m1_w, K_m1_v>>

SerializeDtypes == <<"U8", "I8", "BOOL">>

SerializeBytes ==
  << <<"x0", "x1", "x2", "x3">>, <<"y0", "y1", "y2", "y3">>, <<"z0", "z1", "z2", "z3">> >>

\* where the bytes of the first tensor come from: a Buffer, nothing, a
\* provider that rejects, or a provider that reads m.10.w of Model A's file
SerializeSources == {"data", "none", "rejects", "read"}

\* the provider that reads m.10.w of Model A's file
ReadingProvider ==
  [kind |-> "read", basePath |-> PathA, name |-> K_m10_w,
   pseudoMap |-> [metadata |-> <<>>,
                  tensors |-> <<[key |-> K_m10_w,
                                 info |-> Get(TestModel(PathA).tensors, K_m10_w)]>>,
                  shardHeaderLengths |-> TestModel(PathA).shardHeaderLengths]]

\* the SerializedTensorInfo of tensor i with n bytes of data
SerializeTensor(i, n, source) ==
  LET data == SubSeq(SerializeBytes[i], 1, n)
      shape == IF i = 1 THEN <<n>> ELSE IF i = 2 THEN <<1, n>> ELSE <<n, 1>>
  IN IF i > 1 \/ source = "data"
       THEN SerializedTensorInfo(SerializeDtypes[i], shape, n, <<data>>, NoObject)
     ELSE IF source = "none"
       THEN SerializedTensorInfo(SerializeDtypes[i], shape, n, NoObject, NoObject)
     ELSE IF source = "rejects"
       THEN SerializedTensorInfo(SerializeDtypes[i], shape, n, NoObject,
                                 <<[kind |-> "rejects"]>>)
     ELSE SerializedTensorInfo(SerializeDtypes[i], <<2>>, 2, NoObject,
                               <<ReadingProvider>>)

\* a SerializationInput: lens[i] is the data length of tensor i, -1 when the
\* input does not have the tensor; onProgress tells whether the input has a
\* progress sink
SerializeInput(lens, metadata, source, onProgress) ==
  LET present == SelectSeq(<<1, 2, 3>>, LAMBDA i : lens[i] >= 0)
  IN [metadata |-> metadata,
      tensors |-> [k \in 1..Len(present) |->
                     [key |-> SerializeNames[present[k]],
                      info |-> SerializeTensor(present[k], lens[present[k]], source)]],
      onProgress |-> onProgress]

\* serialize(input, OutputPath)
Serialize ==
  /\ UNCHANGED <<hostVars, poolVars>>
  /\ /\ Idle
     /\ \E lens \in [1..3 -> -1..MaxDataLen], metadata \in {<<>>, [format |-> "pt"]},
           source \in SerializeSources, onProgress \in BOOLEAN :
          LET called(input, r) ==
                lastCall' = [op |-> "serialize", error |-> r.error, input |-> input,
                             written |-> r.disk[OutputPath], events |-> r.events,
                             progress |-> r.progress]
              with(input) == called(input, serialize(TestDisk, input, OutputPath))
          IN with(SerializeInput(lens, metadata, source, onProgress))
     /\ UNCHANGED <<sessionActive, states, currentIndex, loadedModel, currentModelB>>

\* a file written byte for byte: a length prefix that claims lengthClaimed
\* bytes, then the text
RawFile(lengthClaimed, text) == File(writeBigUInt64LE(lengthClaimed), text, <<>>)

\* a file whose header is the JSON text of a value, with tensor data
HeaderFile(value, data) ==
  LET withText(text) == File(writeBigUInt64LE(ByteLength(text)), text, data)
  IN withText(JSONstringify(value))

BadPath(base) == [dir |-> "bad", base |-> base]

\* a header text that is no JSON
CorruptText == <<Punct("{"), Punct(" "), Punct("!"), Punct("!"), Punct("!")>>

\* the header of one tensor m.1.w
OneTensor(entry) == JObj(<<[key |-> K_m1_w, info |-> entry]>>)

\* the files that parseHeader must reject, or accepts although they are not
\* written by serialize
OddFiles ==
  (BadPath("truncated") :> File(<<2, 0, 0>>, <<>>, <<>>))
  @@ (BadPath("zero") :> RawFile(0, <<>>))
  @@ (BadPath("big") :> RawFile(200 * 1024 * 1024, <<>>))
  @@ (BadPath("over") :> RawFile(MAX_HEADER_SIZE + 1, <<Punct("{"), Punct("}")>>))
  @@ (BadPath("limit") :> RawFile(MAX_HEADER_SIZE, <<Punct("{"), Punct("}")>>))
  @@ (BadPath("short") :> RawFile(10, <<Punct("{"), Punct("}")>>))
  @@ (BadPath("corrupt") :> RawFile(5, CorruptText))
  @@ (BadPath("cut") :> RawFile(3, <<Punct("{"), StrTok(K_m1_w), Punct(":"), NumTok(1),
                                     Punct("}")>>))
  @@ (BadPath("array") :> HeaderFile(JArr(<<JNum(1)>>), <<>>))
  @@ (BadPath("number") :> HeaderFile(JNum(7), <<>>))
  @@ (BadPath("dtype") :>
        HeaderFile(OneTensor(JObj(<<[key |-> SHAPE_KEY, info |-> JArr(<<JNum(2)>>)]>>)),
                   <<>>))
  @@ (BadPath("unknown") :>
        HeaderFile(OneTensor(JObj(<<[key |-> DTYPE_KEY, info |-> JStr(<<"F", "9">>)]>>)),
                   <<>>))
  @@ (BadPath("shape") :>
        HeaderFile(OneTensor(JObj(<<[key |-> DTYPE_KEY, info |-> JStr(Utf8("U8"))],
                                    [key |-> SHAPE_KEY, info |-> JNum(2)]>>)), <<>>))
  @@ (BadPath("offsets") :>
        HeaderFile(OneTensor(JObj(<<[key |-> DTYPE_KEY, info |-> JStr(Utf8("U8"))],
                                    [key |-> SHAPE_KEY, info |-> JArr(<<JNum(2)>>)],
                                    [key |-> DATA_OFFSETS_KEY,
                                     info |-> JArr(<<JNum(0)>>)]>>)), <<"o0", "o1">>))
  @@ (BadPath("empty") :> createTestSafetensorsFile(<<>>, [format |-> "pt"]))
  @@ (BadPath("sizes") :>
        createTestSafetensorsFile(<<TestTensor(K_m1_w, "F32", <<2>>, <<"s0", "s1">>)>>,
                                  <<>>))

\* the disk of the file operations
FilesDisk == TestDisk @@ OddFiles

\* the paths that are opened: the files of the disk and a path without file
FilesPaths == DOMAIN FilesDisk \cup {BadPath("missing")}

\* parseHeader(filePath)
ParseHeader ==
  /\ UNCHANGED <<hostVars, poolVars>>
  /\ /\ Idle
     /\ \E filePath \in FilesPaths :
          LET called(r) ==
                lastCall' = [op |-> "parseHeader", error |-> r.error, filePath |-> filePath,
                             value |-> r.value, events |-> r.events]
          IN called(parseHeader(FilesDisk, filePath))
     /\ UNCHANGED <<sessionActive, states, currentIndex, loadedModel, currentModelB>>

\* the byte ranges asked of readTensorData: the tensors of the files, a range
\* that ends behind the file and a range that ends before it starts
ReadRanges == {<<0, 2>>, <<2, 4>>, <<4, 6>>, <<4, 8>>, <<2, 0>>}

\* readTensorData(filePath, headerLength, dataOffsets) with the header length
\* of the file
ReadTensorData ==
  /\ UNCHANGED <<hostVars, poolVars>>
  /\ /\ Idle
     /\ \E filePath \in TestPaths \cup {BadPath("missing")}, dataOffsets \in ReadRanges :
          LET headerLength == IF filePath \in TestPaths
                              THEN TestModel(filePath).shardHeaderLengths[filePath.base]
                              ELSE 0
              called(r) ==
                lastCall' = [op |-> "readTensorData", error |-> r.error,
                             filePath |-> filePath, dataOffsets |-> dataOffsets,
                             value |-> r.value, events |-> r.events]
          IN called(readTensorData(FilesDisk, filePath, headerLength, dataOffsets))
     /\ UNCHANGED <<sessionActive, states, currentIndex, loadedModel, currentModelB>>

\* the directory of the sharded model, its shard files and its index
ShardPath(base) == [dir |-> "m", base |-> base]

ShardFiles == <<"shard1", "shard2", "shard3">>

\* createTestShardFile: shard3 has no m.1.v
GoodShards ==
  [shard1 |-> createTestSafetensorsFile(
                << TestTensor(K_m1_w, "U8", <<1>>, <<"p0">>),
                   TestTensor(K_m1_v, "U8", <<1>>, <<"p1">>),
                   TestTensor(K_m10_w, "U8", <<1>>, <<"p2">>) >>, [format |-> "pt"]),
   shard2 |-> createTestSafetensorsFile(
                << TestTensor(K_m1_w, "I8", <<1>>, <<"q0">>),
                   TestTensor(K_m1_v, "I8", <<1>>, <<"q1">>),
                   TestTensor(K_m10_w, "I8", <<1>>, <<"q2">>) >>, <<>>),
   shard3 |-> createTestSafetensorsFile(
                << TestTensor(K_m1_w, "BOOL", <<1>>, <<"r0">>),
                   TestTensor(K_m10_w, "BOOL", <<1>>, <<"r2">>) >>, <<>>)]

\* a shard file is missing, well-formed or corrupt
ShardStates == {"missing", "good", "corrupt"}

\* the tensor names of the index, in the order of its weight_map
IndexNames == <<K_m1_w, K_m1_v, K_m10_w>>

\* createTestIndexFile(weightMap, dir): the index as JSON text (written
\* without the indentation, which JSON.parse skips); kind "corrupt" is a text
\* that is no JSON and kind "nomap" an index without weight_map
IndexFile(kind, assignment) ==
  CASE kind = "corrupt" -> File(<<>>, CorruptText, <<>>)
    [] kind = "nomap" ->
         File(<<>>, JSONstringify(JObj(<<[key |-> INDEX_METADATA_KEY,
                                          info |-> JObj(<<>>)]>>)), <<>>)
    [] OTHER ->
         File(<<>>,
              JSONstringify(JObj(
                << [key |-> INDEX_METADATA_KEY, info |-> JObj(<<>>)],
                   [key |-> WEIGHT_MAP_KEY,
                    info |-> JObj([i \in 1..Len(IndexNames) |->
                                     [key |-> IndexNames[i],
                                      info |-> JStr(Utf8(assignment[i]))]])] >>)),
              <<>>)

IndexKinds == {"map", "corrupt", "nomap", "absent"}

\* the disk of a sharded model
ShardDisk(kind, assignment, shards) ==
  [p \in {ShardPath(ShardFiles[i]) : i \in {j \in 1..3 : shards[j] # "missing"}}
         \cup (IF kind = "absent" THEN {} ELSE {ShardPath(INDEX_FILE)}) |->
     IF p.base = INDEX_FILE THEN IndexFile(kind, assignment)
     ELSE IF shards[CHOOSE i \in 1..3 : ShardFiles[i] = p.base] = "corrupt"
       THEN RawFile(5, CorruptText)
     ELSE GoodShards[p.base]]

\* loadShardedModel(indexOrShardPath) on the index or on the first shard
LoadShardedModel ==
  /\ UNCHANGED <<hostVars, poolVars>>
  /\ /\ Idle
     /\ \E kind \in IndexKinds, assignment \in [1..3 -> {"shard1", "shard2", "shard3"}],
           shards \in [1..3 -> ShardStates], firstRejection \in 1..3,
           indexOrShardPath \in {ShardPath(INDEX_FILE), ShardPath("shard1")} :
          /\ kind # "map" => assignment = [i \in 1..3 |-> "shard1"]
          /\ Cardinality({i \in 1..3 : shards[i] = "corrupt"}) < 2 => firstRejection = 1
          /\ LET called(r) ==
                   lastCall' = [op |-> "loadShardedModel", error |-> r.error,
                                message |-> r.message,
                                indexOrShardPath |-> indexOrShardPath, index |-> kind,
                                weight_map |-> assignment, shards |-> shards,
                                value |-> r.value, events |-> r.events]
             IN called(loadShardedModel(ShardDisk(kind, assignment, shards),
                                        indexOrShardPath, firstRejection))
     /\ UNCHANGED <<sessionActive, states, currentIndex, loadedModel, currentModelB>>

\* the tensors of a model as the diff reads them: shardFile is the path of
\* the file (extension.ts: { ...v, shardFile: filePath })
DiffTensors(path) ==
  [i \in 1..Len(TestModel(path).tensors) |->
     [key |-> TestModel(path).tensors[i].key,
      info |-> [TestModel(path).tensors[i].info EXCEPT !.shardFile = path]]]

\* m.1.v as the last tensor of the batch: in the comparison file, in a file
\* that is gone, with a range that ends before it starts, or with a range
\* that ends behind the file
LastTensorKinds == {"good", "missing", "negative", "beyond"}

LastTensor(kind) ==
  LET info == Get(DiffTensors(PathB), K_m1_v)
  IN CASE kind = "good" -> info
       [] kind = "missing" -> [info EXCEPT !.shardFile = BadPath("missing")]
       [] kind = "negative" -> [info EXCEPT !.dataOffsets = <<2, 0>>]
       [] kind = "beyond" -> [info EXCEPT !.dataOffsets = <<2, 6>>]

\* the tensors of the batch: those of Model A's file and m.1.v
BatchTensors(kind) == Put(DiffTensors(PathA), K_m1_v, LastTensor(kind))

\* the header lengths by file; without the entry of the comparison file the
\* reader takes 0
BatchHeaderLengths(known) ==
  (PathA :> TestModel(PathA).shardHeaderLengths[PathA.base])
  @@ (IF known THEN PathB :> TestModel(PathB).shardHeaderLengths[PathB.base]
      ELSE <<>>)

\* the names asked for: orders of tensors of both files and a name without
\* tensor
BatchNames ==
  { <<>>, <<K_m1_w>>, <<K_m1_v>>, <<K_m10_w>>, <<K_m1_w, K_m1_v>>, <<K_m1_v, K_m1_w>>,
    <<K_m1_w, K_m1_v, K_m1_loraA>>, <<K_m1_v, K_m10_w, K_m1_v>>,
    <<K_m10_w, K_m1_loraA, K_m1_w>> }

\* readTensorsBatched(tensors, headerLengths, names)
ReadTensorsBatched ==
  /\ UNCHANGED <<hostVars, poolVars>>
  /\ /\ Idle
     /\ \E kind \in LastTensorKinds, known \in BOOLEAN, names \in BatchNames :
          LET called(r) ==
                lastCall' = [op |-> "readTensorsBatched", error |-> r.error,
                             kind |-> kind, known |-> known, names |-> names,
                             value |-> r.value, events |-> r.events]
          IN called(readTensorsBatched(FilesDisk, BatchTensors(kind),
                                       BatchHeaderLengths(known), names))
     /\ UNCHANGED <<sessionActive, states, currentIndex, loadedModel, currentModelB>>

NextFiles ==
  \/ Await
  \/ Serialize
  \/ ParseHeader
  \/ ReadTensorData
  \/ ReadTensorsBatched
  \/ LoadShardedModel

SpecFiles == InitFiles /\ [][NextFiles]_vars

(* The extension host behind its MessageHost (protocol/messageHost.ts):
   every message of the webview passes the listener of attach before a
   handler of setupMessageHandlers runs *)

\* the protocol version of the host
PROTOCOL_VERSION == 1

\* the raw messages: type and protocolVersion are optional fields
Message(type, protocolVersion) == [type |-> type, protocolVersion |-> protocolVersion]

IncomingTypes ==
  {NoObject, <<"loadModel">>, <<"loadComparison">>, <<"performSurgery">>,
   <<"requestTensorDiff">>, <<"ready">>}

IncomingVersions == {NoObject, <<0>>, <<1>>, <<2>>}

IncomingMessages == {Message(t, v) : t \in IncomingTypes, v \in IncomingVersions}

\* a check that turns away only the messages of a newer protocol
RejectsNewer(msg) ==
  msg.protocolVersion # NoObject /\ msg.protocolVersion[1] > PROTOCOL_VERSION

\* 'protocolVersion' in msg && msg.protocolVersion !== PROTOCOL_VERSION
Rejects(msg) ==
  msg.protocolVersion # NoObject /\ msg.protocolVersion[1] # PROTOCOL_VERSION

\* this.postMessage({type: 'error', ..., code: 'PROTOCOL_MISMATCH'})
PostProtocolMismatch(msg) ==
  /\ lastCall' = Call("postMessage",
                      [type |-> "error", protocolVersion |-> PROTOCOL_VERSION,
                       expected |-> PROTOCOL_VERSION, got |-> msg.protocolVersion[1],
                       code |-> "PROTOCOL_MISMATCH"],
                      "void", "")
  /\ UNCHANGED <<sessionActive, states, currentIndex, loadedModel, currentModelB>>

\* the requestTensorDiff handler: it answers with a tensorDiffResult, with an
\* error when one of the two models is not loaded, and changes nothing
RequestTensorDiff ==
  /\ lastCall' = Call("requestTensorDiff", NoArgs, "void",
                      IF loadedModel = NoObject \/ currentModelB = NoObject
                      THEN "Both models must be loaded to compute a diff" ELSE "")
  /\ UNCHANGED <<sessionActive, states, currentIndex, loadedModel, currentModelB>>

\* handlers.get(msg.type), and the call of the handler when there is one
Dispatch(type) ==
  CASE type = "loadModel" -> NewSession
    [] type = "loadComparison" -> LoadComparison
    [] type = "performSurgery" -> PerformSurgery
    [] type = "requestTensorDiff" -> RequestTensorDiff
    [] OTHER -> UNCHANGED vars

\* the listener of panel.webview.onDidReceiveMessage
OnDidReceiveMessage(msg) ==
  IF msg.type = NoObject THEN UNCHANGED vars
  ELSE IF Rejects(msg) THEN PostProtocolMismatch(msg)
  ELSE Dispatch(msg.type[1])

ReceiveMessage ==
  /\ UNCHANGED <<hostVars, poolVars>>
  /\ \E msg \in IncomingMessages : OnDidReceiveMessage(msg)

NextMessages ==
  \/ ReceiveMessage

SpecMessages == InitHost /\ [][NextMessages]_vars

(* Calls of the parsers that work on tensor names (loraDetector.test.ts,
   treeBuilder.test.ts, extension.ts:439-450): each step is one call, the
   caller takes its outcome before the next call *)

P_q == <<"q">>

ADAPTER_X == <<"x">>

\* the name of a LoRA half
LoraName(modulePath, marker, adapterName) ==
  modulePath \o DOT \o marker
    \o (IF adapterName = Undefined THEN EmptyStr ELSE DOT \o adapterName)
    \o DOT \o WEIGHT

\* a TensorInfo with a shape
ShapedInfo(shape) == [dtype |-> "F16", shape |-> shape, dataOffsets |-> <<0, 0>>]

Tensor(name, shape) == [key |-> name, info |-> ShapedInfo(shape)]

\* the shapes of the A and B factors: [rank, in] and [out, rank] matrices
\* whose rank dimensions agree or differ, and a factor of three dimensions
AShapes == {<<2, 3>>, <<4, 3>>, <<2, 3, 5>>}

BShapes == {<<3, 2>>, <<3, 4>>}

\* the tensor maps: a pair beside its base weight, a pair of a named
\* adapter, both pairs on one module (B halves first), a half without its
\* partner, a pair on a module with base_layer.weight, a pair under the
\* PEFT prefix
LoraLayouts == {"plain", "named", "both", "orphan", "base", "peft"}

LoraTensors(layout, aShape, bShape) ==
  CASE layout = "plain" ->
         << Tensor(P_q \o DOT \o WEIGHT, <<3, 3>>),
            Tensor(LoraName(P_q, LORA_A, Undefined), aShape),
            Tensor(LoraName(P_q, LORA_B, Undefined), bShape) >>
    [] layout = "named" ->
         << Tensor(LoraName(P_q, LORA_A, ADAPTER_X), aShape),
            Tensor(LoraName(P_q, LORA_B, ADAPTER_X), bShape) >>
    [] layout = "both" ->
         << Tensor(LoraName(P_q, LORA_B, ADAPTER_X), bShape),
            Tensor(LoraName(P_q, LORA_B, Undefined), <<3, 2>>),
            Tensor(LoraName(P_q, LORA_A, Undefined), <<2, 3>>),
            Tensor(LoraName(P_q, LORA_A, ADAPTER_X), aShape) >>
    [] layout = "orphan" ->
         << Tensor(P_q \o DOT \o WEIGHT, <<3, 3>>),
            Tensor(LoraName(P_q, LORA_A, Undefined), aShape) >>
    [] layout = "base" ->
         << Tensor(LoraName(P_q, LORA_A, Undefined), aShape),
            Tensor(P_q \o DOT \o BASE_LAYER \o DOT \o WEIGHT, <<3, 3>>),
            Tensor(LoraName(P_q, LORA_B, Undefined), bShape) >>
    [] layout = "peft" ->
         << Tensor(LoraName(PEFT_PREFIX \o P_q, LORA_A, Undefined), aShape),
            Tensor(LoraName(PEFT_PREFIX \o P_q, LORA_B, Undefined), bShape) >>

\* the configs passed directly: none, and configs with and without r and
\* lora_alpha
DirectConfigs ==
  {NoObject}
    \cup { <<AdapterConfig(r, lora_alpha, JsEmptyArray, JsNumber(0))>> :
             r \in {JsUndefined, JsNumber(0), JsNumber(32)},
             lora_alpha \in {JsUndefined, JsNumber(64)} }

\* the adapter_config.json next to the model file: absent, not JSON, or an
\* object with or without r and lora_alpha (a JSON value can be null)
SideFiles ==
  {[kind |-> "absent"], [kind |-> "corrupt"]}
    \cup { [kind |-> "object",
            config |-> AdapterConfig(r, lora_alpha, JsUndefined, JsUndefined)] :
             r \in {JsUndefined, JsNull, JsNumber(0), JsNumber(32)},
             lora_alpha \in {JsUndefined, JsNull, JsNumber(64)} }

\* detectLoraAdapters(tensors, adapterConfig) with a config passed directly
DetectLoraAdapters ==
  /\ UNCHANGED <<hostVars, poolVars>>
  /\ /\ Idle
     /\ \E layout \in LoraLayouts, aShape \in AShapes, bShape \in BShapes,
           adapterConfig \in DirectConfigs :
          LET called(tensors) ==
                lastCall' = [op |-> "detectLoraAdapters", error |-> "",
                             tensors |-> tensors, adapterConfig |-> adapterConfig,
                             value |-> detectLoraAdapters(tensors, adapterConfig)]
          IN called(LoraTensors(layout, aShape, bShape))
     /\ UNCHANGED <<sessionActive, states, currentIndex, loadedModel, currentModelB>>

\* adapterConfig = await parseAdapterConfig(filePath);
\* loraMap = detectLoraAdapters(tensors, adapterConfig)   (extension.ts:439-440)
LoadAdapters ==
  /\ UNCHANGED <<hostVars, poolVars>>
  /\ /\ Idle
     /\ \E layout \in LoraLayouts, aShape \in AShapes, bShape \in BShapes,
           sideFile \in SideFiles :
          LET called(tensors, adapterConfig) ==
                lastCall' = [op |-> "loadAdapters", error |-> "", sideFile |-> sideFile,
                             tensors |-> tensors, adapterConfig |-> adapterConfig,
                             value |-> detectLoraAdapters(tensors, adapterConfig)]
          IN called(LoraTensors(layout, aShape, bShape), parseAdapterConfig(sideFile))
     /\ UNCHANGED <<sessionActive, states, currentIndex, loadedModel, currentModelB>>

\* the most tensors of a map the tree is built from
MaxTensors == 3

LAYERS == <<"l", "a", "y", "e", "r", "s">>

NORM == <<"n", "o", "r", "m">>

EMBED == <<"e", "m", "b", "e", "d">>

\* the tensor names of the ordering test, two names of which one is a
\* dot-prefix of the other, and a module with its LoRA pair
TreeNames ==
  { Join(<<LAYERS, <<"2">>, WEIGHT>>), Join(<<LAYERS, <<"0">>, WEIGHT>>),
    Join(<<NORM, WEIGHT>>), Join(<<EMBED, WEIGHT>>),
    <<"a", ".", "b">>, <<"a", ".", "b", ".", "c">>,
    Join(<<P_q, WEIGHT>>), LoraName(P_q, LORA_A, Undefined),
    LoraName(P_q, LORA_B, Undefined) }

\* layers.2.weight, layers.0.weight, layers.1.weight, norm.weight,
\* embed.weight
OrderingExample ==
  << Join(<<LAYERS, <<"2">>, WEIGHT>>), Join(<<LAYERS, <<"0">>, WEIGHT>>),
     Join(<<LAYERS, <<"1">>, WEIGHT>>), Join(<<NORM, WEIGHT>>),
     Join(<<EMBED, WEIGHT>>) >>

\* the tensor names of a map in property order: no name twice
TreeInputs ==
  { names \in UNION { [1..n -> TreeNames] : n \in 0..MaxTensors } :
      \A i, j \in 1..Len(names) : names[i] = names[j] => i = j }
    \cup {OrderingExample}

\* loraMap = detectLoraAdapters(tensors, adapterConfig);
\* tree = buildArchitectureTree(tensors, loraMap)   (extension.ts:440-450)
BuildArchitectureTree ==
  /\ UNCHANGED <<hostVars, poolVars>>
  /\ /\ Idle
     /\ \E names \in TreeInputs :
          LET called(tensors, loraMap) ==
                lastCall' = [op |-> "buildArchitectureTree", error |-> "",
                             names |-> names, loraMap |-> loraMap,
                             value |-> buildArchitectureTree(tensors, loraMap)]
              with(tensors) == called(tensors, detectLoraAdapters(tensors, NoObject))
          IN with([i \in 1..Len(names) |-> Tensor(names[i], <<2, 3>>)])
     /\ UNCHANGED <<sessionActive, states, currentIndex, loadedModel, currentModelB>>

NextParsers ==
  \/ Await
  \/ DetectLoraAdapters
  \/ LoadAdapters
  \/ BuildArchitectureTree

SpecParsers == InitFiles /\ [][NextParsers]_vars

(* The WorkerPool with its callers and its worker threads: tasks are
   submitted, threads answer, fail and exit, and the pool is terminated *)

\* the most tasks submitted to the pool
MaxTasks == 3

\* the sizes the pool is constructed with
PoolSizes == {1, 2}

InitWorkers ==
  /\ sessionActive = FALSE
  /\ states = <<>>
  /\ currentIndex = -1
  /\ loadedModel = NoObject
  /\ currentModelB = NoObject
  /\ lastCall = [op |-> "none", error |-> ""]
  /\ InitLoads
  /\ \E maxWorkers \in PoolSizes : InitPool(maxWorkers)

TheWorld == World(pool, threads, promises, started)

\* the pool, the threads, the promises and the order of the tasks become
\* those of w
Becomes(w) ==
  /\ pool' = w.pool
  /\ threads' = w.threads
  /\ promises' = w.promises
  /\ started' = w.started

NotThePool ==
  UNCHANGED <<sessionActive, states, currentIndex, loadedModel, currentModelB,
              lastCall, hostVars>>

\* pool.execute(taskType, payload)
Execute ==
  /\ Len(promises) < MaxTasks
  /\ Becomes(execute(TheWorld))
  /\ UNCHANGED terminateCall
  /\ NotThePool

\* a thread answers the oldest task posted to it and the pool takes the
\* message
WorkerMessage(worker) ==
  /\ worker \in 1..Len(threads)
  /\ threads[worker].state \in {"online", "stopping"}
  /\ threads[worker].inbox # <<>>
  /\ \E isError \in BOOLEAN :
       Becomes(OnMessage([TheWorld EXCEPT !.threads[worker].inbox = Tail(@)],
                         worker, isError))
  /\ UNCHANGED terminateCall
  /\ NotThePool

\* a thread raises an uncaught exception: it stops running, answers none
\* of its tasks and the pool takes the error
WorkerError(worker) ==
  /\ worker \in 1..Len(threads)
  /\ threads[worker].state = "online"
  /\ Becomes(OnError([TheWorld EXCEPT !.threads[worker] = [state |-> "errored", inbox |-> <<>>]],
                     worker))
  /\ UNCHANGED terminateCall
  /\ NotThePool

\* a thread exits and the pool takes the exit: with any code when it ran,
\* with code 1 after an uncaught exception or a terminate()
WorkerExit(worker) ==
  /\ worker \in 1..Len(threads)
  /\ threads[worker].state # "exited"
  /\ \E code \in IF threads[worker].state = "online" THEN {0, 1} ELSE {1} :
       Becomes(OnExit([TheWorld EXCEPT !.threads[worker] = [state |-> "exited", inbox |-> <<>>]],
                      worker, code))
  /\ UNCHANGED terminateCall
  /\ NotThePool

\* pool.terminate() is called and runs up to its await
Terminate ==
  /\ terminateCall = "none"
  /\ Becomes(terminate(TheWorld))
  /\ terminateCall' = "awaiting"
  /\ NotThePool

\* every worker.terminate() is done and terminate() returns
TerminateReturns ==
  /\ terminateCall = "awaiting"
  /\ \A i \in 1..Len(pool.workers) : threads[pool.workers[i]].state = "exited"
  /\ Becomes(terminateReturn(TheWorld))
  /\ terminateCall' = "returned"
  /\ NotThePool

\* an event of a thread that holds a task
BusyWorkerEvent(worker) ==
  /\ worker \in 1..Len(threads)
  /\ threads[worker].inbox # <<>>
  /\ \/ WorkerMessage(worker)
     \/ WorkerError(worker)
     \/ WorkerExit(worker)

SomeWorkerMessage == \E worker \in 1..MaxTasks : WorkerMessage(worker)

SomeWorkerError == \E worker \in 1..MaxTasks : WorkerError(worker)

SomeWorkerExit == \E worker \in 1..MaxTasks : WorkerExit(worker)

NextWorkers ==
  \/ Execute
  \/ SomeWorkerMessage
  \/ SomeWorkerError
  \/ SomeWorkerExit
  \/ Terminate
  \/ TerminateReturns

SpecWorkers == InitWorkers /\ [][NextWorkers]_vars

\* a thread that holds a task answers it, fails or exits
SpecWorkersFair ==
  /\ SpecWorkers
  /\ \A worker \in 1..MaxTasks :
       WF_vars(BusyWorkerEvent(worker))
  /\ WF_vars(TerminateReturns)

(* The host loads models: each loadAndSendModel runs up to an await and
   goes on when the awaited call returns, in any order with the other
   invocations and with the performSurgery messages *)

\* the most invocations of loadAndSendModel
MaxLoads == 2

\* the files a load can name: two models and a file that cannot be parsed
LoadableFiles ==
  { [filePath |-> "A", model |-> <<ModelA>>],
    [filePath |-> "A2", model |-> <<ModelA2>>],
    [filePath |-> "missing", model |-> NoObject] }

\* messageHost.postMessage(msg), kept as the last message posted
PostMessage(type, filePath, code) ==
  lastCall' = [op |-> type, error |-> code, filePath |-> filePath]

\* the invocation i of loadAndSendModel goes on to the await at
At(i, at) == loads' = [loads EXCEPT ![i].at = at]

\* a load of a file is asked for: loadAndSendModel posts its first progress
\* message and awaits isShardedModel(filePath)
LoadModel ==
  /\ Len(loads) < MaxLoads
  /\ \E file \in LoadableFiles :
       /\ loads' = Append(loads, [file |-> file, at |-> "isShardedModel"])
       /\ PostMessage("progress", file.filePath, "")
  /\ UNCHANGED <<sessionActive, states, currentIndex, loadedModel, currentModelB,
                 currentModelA, poolVars>>

\* isShardedModel returns: loadAndSendModel awaits loadShardedModel or
\* parseHeader
IsShardedModelReturns ==
  \E i \in 1..Len(loads) :
    /\ loads[i].at = "isShardedModel"
    /\ At(i, "parseHeader")
    /\ UNCHANGED <<sessionActive, states, currentIndex, loadedModel, currentModelB,
                   lastCall, currentModelA, poolVars>>

\* the parser returns or throws: the catch posts the error, else
\* currentSurgerySession = new SurgerySession(unifiedModel), a progress
\* message is posted and parseAdapterConfig is awaited
ParserReturns ==
  \E i \in 1..Len(loads) :
    /\ loads[i].at = "parseHeader"
    /\ IF loads[i].file.model = NoObject
       THEN /\ At(i, "failed")
            /\ PostMessage("error", loads[i].file.filePath, "LOAD_ERROR")
            /\ UNCHANGED <<sessionActive, states, currentIndex, loadedModel>>
       ELSE /\ At(i, "parseAdapterConfig")
            /\ sessionActive' = TRUE
            /\ states' = <<OriginalState(loads[i].file.model[1])>>
            /\ currentIndex' = 0
            /\ loadedModel' = loads[i].file.model
            /\ PostMessage("progress", loads[i].file.filePath, "")
    /\ UNCHANGED <<currentModelB, currentModelA, poolVars>>

\* parseAdapterConfig returns (it throws nothing): currentModelA =
\* { filePath, tree, loraMap, tensors, shardHeaderLengths } and modelLoaded
\* is posted; tree and loraMap are computed from tensors and not kept here
AdapterConfigReturns ==
  \E i \in 1..Len(loads) :
    /\ loads[i].at = "parseAdapterConfig"
    /\ At(i, "done")
    /\ currentModelA' =
         << [filePath |-> loads[i].file.filePath,
             tensors |-> loads[i].file.model[1].tensors,
             shardHeaderLengths |-> loads[i].file.model[1].shardHeaderLengths] >>
    /\ PostMessage("modelLoaded", loads[i].file.filePath, "")
    /\ UNCHANGED <<sessionActive, states, currentIndex, loadedModel, currentModelB,
                   poolVars>>


NextLoads ==
  \/ LoadModel
  \/ IsShardedModelReturns
  \/ ParserReturns
  \/ AdapterConfigReturns
  \/ PerformSurgery

SpecLoads == InitHost /\ [][NextLoads]_vars

----------------------------------------------------------------------------
(* Vocabulary of the properties *)

MutatingCalls ==
  {"renameComponent", "removeTensor", "removeLoraAdapter", "renameLoraAdapter",
   "replaceComponent"}

\* the tensor map under the cursor
CurTensors == states[currentIndex + 1].tensors

\* path p is key k itself, or k continues p with a dot: p is an ancestor of k
IsAncestorOrSelf(p, k) ==
  \/ k = p
  \/ /\ Len(k) > Len(p)
     /\ k[Len(p) + 1] = "."
     /\ \A i \in 1..Len(p) : k[i] = p[i]

\* one of the dot-segments of k is lora_A or lora_B
HasMarkerSegment(k) ==
  \E i \in 1..Len(Split(k)) : Split(k)[i] \in {LORA_A, LORA_B}

----------------------------------------------------------------------------
(* Properties of the SurgerySession (specification Spec) *)

\* C1: a mutating operation applied when states exist beyond the cursor
\* discards them: the states up to the old cursor stay, the new state is the
\* last one, the cursor points at it and a redo() at that point returns
\* false, as does a redo() called right after
C1_FreshEditDiscardsRedoBranch ==
  [][ /\ lastCall'.op \in MutatingCalls =>
           /\ Len(states') = currentIndex + 2
           /\ SubSeq(states', 1, currentIndex + 1) = SubSeq(states, 1, currentIndex + 1)
           /\ currentIndex' = Len(states') - 1
           /\ redo(states', currentIndex').ret = FALSE
      /\ (lastCall.op \in MutatingCalls /\ lastCall'.op = "redo") =>
           lastCall'.ret = "false" ]_vars

\* C1 witness: an operation was applied after undo() had moved the cursor
\* back, so that states existed beyond the cursor, and its state is the last
C1_Witness ==
  /\ lastCall.op \in MutatingCalls
  /\ lastCall.before.length > lastCall.before.index + 1
  /\ currentIndex = Len(states) - 1

\* C2: no step changes a state that is in the history at or before the
\* cursor, undo() and redo() change no state at all, and position 0 always
\* holds the originally loaded model
C2_HistoryEntriesNeverChange ==
  /\ [](sessionActive => states[1] = OriginalState(loadedModel[1]))
  /\ [][ /\ lastCall'.op \in MutatingCalls =>
              \A i \in 1..(currentIndex + 1) : states'[i] = states[i]
         /\ lastCall'.op \in {"undo", "redo"} => states' = states ]_vars

\* C2 witness: the cursor is back at position 0 after two operations that
\* changed the tensor map
C2_Witness ==
  /\ lastCall.op = "undo"
  /\ currentIndex = 0
  /\ Len(states) = 3
  /\ states[2].tensors # states[1].tensors
  /\ states[3].tensors # states[2].tensors
  /\ getCurrentState = OriginalState(loadedModel[1])

\* C3: pendingChangesCount is 0 on a fresh session, grows by one on each
\* mutating operation and successful redo, shrinks by one on each
\* successful undo and stays on a refused undo or redo
C3_PendingChangesCount ==
  /\ [](lastCall.op = "new" => pendingChangesCount = 0)
  /\ [][ /\ lastCall'.op \in MutatingCalls =>
              pendingChangesCount' = pendingChangesCount + 1
         /\ (lastCall'.op = "redo" /\ lastCall'.ret = "true") =>
              pendingChangesCount' = pendingChangesCount + 1
         /\ (lastCall'.op = "undo" /\ lastCall'.ret = "true") =>
              pendingChangesCount' = pendingChangesCount - 1
         /\ (lastCall'.op \in {"undo", "redo"} /\ lastCall'.ret = "false") =>
              pendingChangesCount' = pendingChangesCount ]_vars

\* C3 witness: after two operations and an undo, the count is 1 while two
\* states follow the initial one
C3_Witness ==
  /\ lastCall.op = "undo"
  /\ lastCall.ret = "true"
  /\ Len(states) = 3
  /\ pendingChangesCount = 1

\* C4: undo() moves the cursor back by exactly one and returns true when
\* the cursor is not at index 0; at index 0 it returns false and leaves the
\* cursor; it never changes the state list
C4_Undo ==
  [][ lastCall'.op = "undo" =>
        /\ states' = states
        /\ IF currentIndex # 0
           THEN currentIndex' = currentIndex - 1 /\ lastCall'.ret = "true"
           ELSE currentIndex' = currentIndex /\ lastCall'.ret = "false" ]_vars

\* C4 witness: undo() was called with the cursor at index 1
C4_Witness ==
  /\ lastCall.op = "undo"
  /\ lastCall.before.index = 1
  /\ lastCall.ret = "true"
  /\ currentIndex = 0

\* C5: redo() moves the cursor forward by exactly one and returns true when
\* the cursor is not at the last state; at the last state it returns false
\* and leaves the cursor; it never changes the state list
C5_Redo ==
  [][ lastCall'.op = "redo" =>
        /\ states' = states
        /\ IF currentIndex # Len(states) - 1
           THEN currentIndex' = currentIndex + 1 /\ lastCall'.ret = "true"
           ELSE currentIndex' = currentIndex /\ lastCall'.ret = "false" ]_vars

\* C5 witness: redo() was called one position before the last state and
\* reached it
C5_Witness ==
  /\ lastCall.op = "redo"
  /\ lastCall.before.index = lastCall.before.length - 2
  /\ lastCall.ret = "true"
  /\ currentIndex = Len(states) - 1

----------------------------------------------------------------------------
(* Properties of the performSurgery handler (specification SpecHost) *)

\* the validation failures of a request: a rename or LoRA-adapter rename
\* without a new name, a replace when no second model is loaded, an
\* operation kind that is not one of the five
FailsValidation(op, modelB) ==
  \/ op.operationType \in {"renameTensor", "renameLoraAdapter"}
       /\ op.newName \in {Undefined, EmptyStr}
  \/ op.operationType = "replaceTensor" /\ modelB = NoObject
  \/ op.operationType \notin
       {"renameTensor", "removeTensor", "renameLoraAdapter", "removeLoraAdapter",
        "replaceTensor"}

\* C6: a performSurgery request that fails validation leaves the state list
\* and the cursor as they were and is answered with a failure result
C6_ValidationFailurePushesNothing ==
  [][ (/\ lastCall'.op = "performSurgery"
       /\ sessionActive
       /\ FailsValidation(lastCall'.operation, currentModelB)) =>
        /\ states' = states
        /\ currentIndex' = currentIndex
        /\ lastCall'.ret = "false"
        /\ lastCall'.error # "" ]_vars

\* C6 witness: a rename without a name was refused on a session that holds
\* an earlier edit
C6_Witness ==
  /\ lastCall.op = "performSurgery"
  /\ lastCall.operation.operationType = "renameTensor"
  /\ lastCall.operation.newName = Undefined
  /\ lastCall.ret = "false"
  /\ Len(states) = 2
  /\ currentIndex = 1

\* the new path of a rename is taken: it differs from the target and a
\* tensor key lies at or under it
NewPathOccupied(tensors, targetPath, newName) ==
  LET newBase == Join([Split(targetPath) EXCEPT ![Len(Split(targetPath))] = newName])
  IN /\ newBase # targetPath
     /\ \E k \in Keys(tensors) : IsAncestorOrSelf(newBase, k)

\* C7: a rename request whose new path is already occupied by a tensor key
\* or a sibling component is rejected and not applied to the session
C7_RenameCollisionRejected ==
  [][ (/\ lastCall'.op = "performSurgery"
       /\ sessionActive
       /\ lastCall'.operation.operationType = "renameTensor"
       /\ lastCall'.operation.newName \notin {Undefined, EmptyStr}
       /\ NewPathOccupied(CurTensors, lastCall'.operation.targetPath,
                          lastCall'.operation.newName)) =>
        /\ states' = states
        /\ currentIndex' = currentIndex
        /\ lastCall'.ret = "false" ]_vars

----------------------------------------------------------------------------
(* Properties of the operations (specification Spec) *)

\* the key a rename gives to key k at or under targetPath: the characters
\* of targetPath replaced by the new base path, the rest of k kept
RenamedKey(k, targetPath, newName) ==
  LET newBase == Join([Split(targetPath) EXCEPT ![Len(Split(targetPath))] = newName])
  IN newBase \o SubSeq(k, Len(targetPath) + 1, Len(k))

\* C8: after renameComponent(targetPath, newName) every key at or under
\* targetPath appears with targetPath replaced by the new base path and with
\* its record, and every other key appears unchanged with its record
C8_RenameRewritesPrefix ==
  [][ lastCall'.op = "renameComponent" =>
        LET tp == lastCall'.operation.targetPath
            nn == lastCall'.operation.newName
            old == CurTensors
            new == CurTensors'
        IN \A k \in Keys(old) :
             LET k2 == IF IsAncestorOrSelf(tp, k) THEN RenamedKey(k, tp, nn) ELSE k
             IN Has(new, k2) /\ Get(new, k2) = Get(old, k) ]_vars

\* C9: after replaceComponent(targetPath, source, sourceHeaders) the keys at
\* or under targetPath are exactly the source's keys at or under targetPath,
\* each with the source's record, and the keys outside targetPath are the
\* previous ones, each with its previous record
C9_ReplaceComponent ==
  [][ lastCall'.op = "replaceComponent" =>
        LET tp == lastCall'.operation.targetPath
            old == CurTensors
            new == CurTensors'
            src == ModelB.tensors
            inside(t) == {k \in Keys(t) : IsAncestorOrSelf(tp, k)}
        IN /\ inside(new) = inside(src)
           /\ \A k \in inside(src) : Get(new, k) = Get(src, k)
           /\ Keys(new) \ inside(new) = Keys(old) \ inside(old)
           /\ \A k \in Keys(old) \ inside(old) : Get(new, k) = Get(old, k) ]_vars

\* C9 witness: m.1 of Model A, which holds a LoRA pair, was replaced by m.1
\* of Model B, which holds the tensor v that Model A lacks
C9_Witness ==
  /\ lastCall.op = "replaceComponent"
  /\ lastCall.operation.targetPath = P_m1
  /\ Has(states[currentIndex].tensors, K_m1_loraA)
  /\ Has(states[currentIndex].tensors, K_m10_w)
  /\ Has(CurTensors, K_m1_v)
  /\ ~Has(CurTensors, K_m1_loraA)

\* C10: removeLoraAdapter(targetPath) deletes every key at or under
\* targetPath that has a lora_A or lora_B segment, and the other tensors of
\* that component, its base weight among them, stay with their records
C10_RemoveLoraAdapter ==
  [][ lastCall'.op = "removeLoraAdapter" =>
        LET tp == lastCall'.operation.targetPath
            old == CurTensors
            new == CurTensors'
        IN \A k \in Keys(old) :
             IsAncestorOrSelf(tp, k) =>
               IF HasMarkerSegment(k)
               THEN ~Has(new, k)
               ELSE Has(new, k) /\ Get(new, k) = Get(old, k) ]_vars

\* C10 witness: the adapter of m.1 was removed from a state that held both
\* halves and the base weight
C10_Witness ==
  /\ lastCall.op = "removeLoraAdapter"
  /\ lastCall.operation.targetPath = P_m1
  /\ Has(states[currentIndex].tensors, K_m1_loraA)
  /\ Has(states[currentIndex].tensors, K_m1_loraB)
  /\ Has(states[currentIndex].tensors, K_m1_w)
  /\ Has(CurTensors, K_m1_w)
  /\ ~Has(CurTensors, K_m1_loraA)
  /\ ~Has(CurTensors, K_m1_loraB)

\* C11: renameLoraAdapter(targetPath, newAdapterPrefix) puts newAdapterPrefix in
\* place of the targetPath prefix of every key at or under targetPath that has
\* a lora_A / lora_B segment (the old name is gone, the record travels with the
\* key), and every key at or under targetPath without such a segment keeps its
\* name and its record.
C11_RenameLoraAdapter ==
  [][ lastCall'.op = "renameLoraAdapter" =>
        LET tp == lastCall'.operation.targetPath
            np == lastCall'.operation.newName
            old == CurTensors
            new == CurTensors'
        IN \A k \in Keys(old) :
             IsAncestorOrSelf(tp, k) =>
               IF HasMarkerSegment(k)
               THEN LET nk == np \o SubSeq(k, Len(tp) + 1, Len(k))
                    IN /\ Has(new, nk)
                       /\ Get(new, nk) = Get(old, k)
                       /\ ~Has(new, k)
               ELSE Has(new, k) /\ Get(new, k) = Get(old, k) ]_vars

\* an adapter under m.1 was renamed to prefix p while the base weight m.1.w
\* stayed in place
C11_Witness ==
  /\ lastCall.op = "renameLoraAdapter"
  /\ lastCall.operation.targetPath = P_m1
  /\ currentIndex >= 1
  /\ Has(states[currentIndex].tensors, K_m1_loraA)
  /\ Has(states[currentIndex].tensors, K_m1_w)
  /\ Has(CurTensors, <<"p", ".", "l", "o", "r", "a", "_", "A", ".", "w">>)
  /\ Has(CurTensors, K_m1_w)

----------------------------------------------------------------------------
(* Properties of saveSurgeryResult (specification SpecSave) *)

\* the test file whose header holds a tensor record (the records of the three
\* files differ in their dtype)
OriginPath(info) ==
  CHOOSE p \in TestPaths :
    \E i \in 1..Len(TestModel(p).tensors) :
      TestModel(p).tensors[i].info.dtype = info.dtype

\* the bytes of a tensor in the data section of the file it comes from
OriginBytes(info) ==
  SubSeq(TestDisk[OriginPath(info)].data, info.dataOffsets[1] + 1, info.dataOffsets[2])

\* the byte length of the header of a test file, from its length prefix
OriginHeaderLength(info) == readBigUInt64LE(TestDisk[OriginPath(info)].prefix)

\* the output file of the last save, alone on a disk, and its parsed header
WrittenDisk == OutputPath :> lastCall.written

WrittenHeader == parseHeader(WrittenDisk, OutputPath)

\* C12: the file written by saveSurgeryResult parses to exactly the tensor
\* names of the session's current state, and the bytes read back for each name
\* are the bytes of the tensor it originated from in its source file.
C12_SavedFileMatchesCurrentState ==
  lastCall.op = "saveSurgeryResult" =>
    /\ lastCall.error = ""
    /\ WrittenHeader.error = ""
    /\ Keys(WrittenHeader.value[1].tensors) = Keys(CurTensors)
    /\ \A k \in Keys(CurTensors) :
         readTensorData(WrittenDisk, OutputPath, WrittenHeader.value[1].headerLength,
                        Get(WrittenHeader.value[1].tensors, k).dataOffsets).value
           = <<OriginBytes(Get(CurTensors, k))>>

\* C13: when the current state holds tensors of a comparison model, the save
\* succeeds and it reads every tensor of the current state from the file the
\* tensor comes from, at 8 + that file's header length + the tensor's start
\* offset: replaced tensors from the comparison model's file, untouched
\* tensors from Model A's file.
C13_ReplacedTensorsResolvable ==
  ( /\ lastCall.op = "saveSurgeryResult"
    /\ \E k \in Keys(CurTensors) : OriginPath(Get(CurTensors, k)) # PathA ) =>
    /\ lastCall.error = ""
    /\ \A k \in Keys(CurTensors) :
         LET info == Get(CurTensors, k)
         IN \E i \in 1..Len(lastCall.events) :
              /\ lastCall.events[i].ev = "read"
              /\ lastCall.events[i].path = OriginPath(info)
              /\ lastCall.events[i].position
                   = 8 + OriginHeaderLength(info) + info.dataOffsets[1]
              /\ lastCall.events[i].n = info.dataOffsets[2] - info.dataOffsets[1]

\* C14: when Model Surgeon metadata is not opted out and operations are
\* pending, the metadata of the saved file holds every key-value pair of the
\* original model and the keys model_surgeon.operations and
\* model_surgeon.source.
C14_SavedMetadata ==
  ( /\ lastCall.op = "saveSurgeryResult"
    /\ lastCall.operation.preserveMetadata # "false"
    /\ currentIndex >= 1
    /\ WrittenHeader.error = "" ) =>
    LET saved == WrittenHeader.value[1].metadata
        original == loadedModel[1].metadata
    IN /\ \A k \in DOMAIN original : k \in DOMAIN saved /\ saved[k] = original[k]
       /\ "model_surgeon.operations" \in DOMAIN saved
       /\ "model_surgeon.source" \in DOMAIN saved


----------------------------------------------------------------------------
(* Properties of the file operations (specification SpecFiles) *)

\* the bytes of m.10.w in Model A's file
ProvidedBytes == <<"a4", "a5">>

\* the bytes a tensor of the serialized input stands for
InputBytes(tensor) ==
  IF tensor.data # NoObject THEN tensor.data[1] ELSE ProvidedBytes

\* C15: for every tensor map M that serialize writes, the header parsed from
\* the written file has the key set of M and the dtype and shape of every
\* tensor of M, and the bytes read back through the offsets of the parsed
\* header are the bytes of the tensor in M.
C15_RoundTrip ==
  (lastCall.op = "serialize" /\ lastCall.error = "") =>
    /\ WrittenHeader.error = ""
    /\ Keys(WrittenHeader.value[1].tensors) = Keys(lastCall.input.tensors)
    /\ \A k \in Keys(lastCall.input.tensors) :
         LET original == Get(lastCall.input.tensors, k)
             parsed == Get(WrittenHeader.value[1].tensors, k)
         IN /\ parsed.dtype = original.dtype
            /\ parsed.shape = original.shape
            /\ readTensorData(WrittenDisk, OutputPath,
                              WrittenHeader.value[1].headerLength,
                              parsed.dataOffsets).value
                 = <<InputBytes(original)>>

\* a map of three tensors with data, one of them read through its provider,
\* was written behind a padded header
C15_Witness ==
  /\ lastCall.op = "serialize"
  /\ lastCall.error = ""
  /\ Len(lastCall.input.tensors) = 3
  /\ \A i \in 1..3 : lastCall.input.tensors[i].info.byteLength = 2
  /\ lastCall.input.tensors[1].info.dataProvider # NoObject
  /\ lastCall.written.text[Len(lastCall.written.text)] = Punct(" ")


\* the header length a file claims in its 8-byte prefix, least significant
\* byte first
ClaimedLength(path) ==
  LET prefix == FilesDisk[path].prefix
  IN prefix[1] + 256 * prefix[2] + 65536 * prefix[3] + 16777216 * prefix[4]

\* 100 MiB
HundredMiB == 104857600

\* C16: parseHeader of a file whose length prefix claims more than 100 MiB
\* fails with the header-too-large error, returns nothing, and neither
\* allocates nor reads more than the 8 bytes of the prefix.
C16_OversizedHeaderRejected ==
  ( /\ lastCall.op = "parseHeader"
    /\ lastCall.filePath \in DOMAIN FilesDisk
    /\ Len(FilesDisk[lastCall.filePath].prefix) = 8
    /\ ClaimedLength(lastCall.filePath) > HundredMiB ) =>
    /\ lastCall.error = "Header size exceeds maximum allowed"
    /\ lastCall.value = NoObject
    /\ \A i \in 1..Len(lastCall.events) :
         lastCall.events[i].ev \in {"alloc", "read"} => lastCall.events[i].n <= 8

\* a file that claims one byte more than 100 MiB was rejected
C16_Witness ==
  /\ lastCall.op = "parseHeader"
  /\ lastCall.filePath = BadPath("over")
  /\ ClaimedLength(lastCall.filePath) = HundredMiB + 1
  /\ lastCall.error = "Header size exceeds maximum allowed"

\* the number of elements of a shape
RECURSIVE ElementCount(_)
ElementCount(shape) ==
  IF Len(shape) = 0 THEN 1 ELSE Head(shape) * ElementCount(Tail(shape))

\* bytes per element of the dtypes of the files
ByteWidth(dtype) ==
  CASE dtype \in {"F64", "I64"} -> 8
    [] dtype \in {"F32", "I32"} -> 4
    [] dtype \in {"F16", "BF16", "I16"} -> 2
    [] OTHER -> 1

\* C17: every tensor record of a header that parseHeader returns has as many
\* bytes in its range as its shape has elements times the byte width of its
\* dtype.
C17_TensorRecordInvariant ==
  (lastCall.op = "parseHeader" /\ lastCall.error = "") =>
    \A i \in 1..Len(lastCall.value[1].tensors) :
      LET record == lastCall.value[1].tensors[i].info
      IN ElementCount(record.shape) * ByteWidth(record.dtype)
           = record.dataOffsets[2] - record.dataOffsets[1]


\* the shard files that the weight_map of the last call names and that are
\* not on its disk
MissingOnDisk ==
  {lastCall.weight_map[i] : i \in 1..3}
    \cap {ShardFiles[j] : j \in {k \in 1..3 : lastCall.shards[k] = "missing"}}

\* the spelling of the names of the shard files
ShardSpelling(name) ==
  <<"s", "h", "a", "r", "d">>
    \o (IF name = "shard1" THEN <<"1">> ELSE IF name = "shard2" THEN <<"2">> ELSE <<"3">>)

\* C18: when the weight_map of the index names shard files that are not on
\* disk, loadShardedModel fails with one error whose text names every one of
\* them, and returns no tensor map.
C18_MissingShardsAggregated ==
  ( /\ lastCall.op = "loadShardedModel"
    /\ lastCall.index = "map"
    /\ MissingOnDisk # {} ) =>
    /\ lastCall.error = "Missing shard files"
    /\ lastCall.value = NoObject
    /\ \A name \in MissingOnDisk : Includes(lastCall.message, ShardSpelling(name))

\* two of the shard files of the index were missing
C18_Witness ==
  /\ lastCall.op = "loadShardedModel"
  /\ lastCall.index = "map"
  /\ Cardinality(MissingOnDisk) = 2
  /\ lastCall.error = "Missing shard files"


----------------------------------------------------------------------------
(* Properties of the message listener (specification SpecMessages) *)

\* C19: a message that carries a protocol version other than the host's is
\* not dispatched: the step it causes leaves the session, the loaded model
\* and the comparison model as they are and posts the PROTOCOL_MISMATCH
\* error.
C19_StaleMessageRejected ==
  [][\A msg \in IncomingMessages :
       ( /\ msg.type # NoObject
         /\ msg.protocolVersion \in {<<0>>, <<2>>}
         /\ OnDidReceiveMessage(msg) ) =>
         /\ UNCHANGED <<sessionActive, states, currentIndex, loadedModel, currentModelB>>
         /\ lastCall'.op = "postMessage"
         /\ lastCall'.operation.code = "PROTOCOL_MISMATCH"]_vars

\* a stale message was turned away while a session with pending changes and
\* a comparison model were there for a handler to act on
C19_Witness ==
  /\ lastCall.op = "postMessage"
  /\ lastCall.operation.code = "PROTOCOL_MISMATCH"
  /\ lastCall.operation.got = 0
  /\ sessionActive
  /\ currentIndex >= 1
  /\ currentModelB # NoObject


\* the operations that open file handles themselves
HandleOps == {"parseHeader", "readTensorData", "serialize", "readTensorsBatched"}

\* how many events of a kind a call has on a path
CountEvents(events, kind, path) ==
  Cardinality({i \in 1..Len(events) : events[i].ev = kind /\ events[i].path = path})

\* C20: when parseHeader, readTensorData, serialize or the batched diff
\* reader returns or throws, every file handle it opened has been closed:
\* each open is followed by a close of the same path, and no path has more
\* opens than closes.
C20_HandlesClosed ==
  lastCall.op \in HandleOps =>
    \A i \in 1..Len(lastCall.events) :
      lastCall.events[i].ev = "open" =>
        /\ \E j \in (i + 1)..Len(lastCall.events) :
             /\ lastCall.events[j].ev = "close"
             /\ lastCall.events[j].path = lastCall.events[i].path
        /\ CountEvents(lastCall.events, "open", lastCall.events[i].path)
             = CountEvents(lastCall.events, "close", lastCall.events[i].path)

\* the batched reader has read Model A's file, opened the comparison file
\* and failed inside the try on a range that ends before it starts
C20_Witness ==
  /\ lastCall.op = "readTensorsBatched"
  /\ lastCall.error = "RangeError"
  /\ CountEvents(lastCall.events, "open", PathA) = 1
  /\ CountEvents(lastCall.events, "read", PathA) >= 1
  /\ CountEvents(lastCall.events, "open", PathB) = 1
  /\ lastCall.events[Len(lastCall.events)] = Ev("close", PathB, 0, 0)


----------------------------------------------------------------------------
(* Further properties of the SurgerySession (specification Spec) *)

\* C27: after any sequence of mutating operations, undo() and redo(), the
\* cursor lies within the state list, 0 <= currentIndex <= states.length - 1,
\* and states[0] is the state built from the originally loaded model.
C27_CursorWithinStates ==
  sessionActive =>
    /\ 0 <= currentIndex
    /\ currentIndex <= Len(states) - 1
    /\ states[1] = OriginalState(loadedModel[1])

\* two operations were applied, both were undone, and a further undo() at
\* position 0 was refused
C27_Witness ==
  /\ sessionActive
  /\ lastCall.op = "undo"
  /\ lastCall.ret = "false"
  /\ lastCall.before.index = 0
  /\ currentIndex = 0
  /\ Len(states) = 3
  /\ states[3].tensors # states[1].tensors

\* C28: removeLoraAdapter and renameLoraAdapter with target path P leave
\* every key that is neither P nor continues P with a dot in the new state
\* under its name with its record.
C28_LoraOperationsFrame ==
  [][ lastCall'.op \in {"removeLoraAdapter", "renameLoraAdapter"} =>
        LET tp == lastCall'.operation.targetPath
            old == CurTensors
            new == CurTensors'
        IN \A k \in Keys(old) :
             ~IsAncestorOrSelf(tp, k) =>
               Has(new, k) /\ Get(new, k) = Get(old, k) ]_vars


----------------------------------------------------------------------------
(* Further properties of the file operations (specification SpecFiles) *)

\* the names of the serialized input in the order serialize writes them
WriteOrder(input) == ArraySort([i \in 1..Len(input.tensors) |-> input.tensors[i].key])

\* the bytes of the first k tensors serialize writes (byteLength is the
\* length of the data of a tensor)
RECURSIVE BytesOfFirst(_, _)
BytesOfFirst(input, k) ==
  IF k = 0 THEN 0
  ELSE BytesOfFirst(input, k - 1)
         + Get(input.tensors, WriteOrder(input)[k]).byteLength

\* the bytes of all tensors of the input
TotalBytes(input) == BytesOfFirst(input, Len(input.tensors))

\* report k of a call is the bytes of the first k tensors over the bytes of
\* all tensors
EveryReportIsFraction ==
  \A k \in 1..Len(lastCall.progress) :
    lastCall.progress[k] = [written |-> BytesOfFirst(lastCall.input, k),
                            expected |-> TotalBytes(lastCall.input)]

\* no report is lower than the report before it (the reports of a call have
\* the same denominator)
ReportsNeverDecrease ==
  \A k \in 2..Len(lastCall.progress) :
    lastCall.progress[k].written * lastCall.progress[k - 1].expected
      >= lastCall.progress[k - 1].written * lastCall.progress[k].expected

\* a call that wrote every tensor made one report per tensor, the last one
\* of 100 percent
CompletionReported ==
  (lastCall.error = "" /\ Len(lastCall.input.tensors) > 0) =>
    /\ Len(lastCall.progress) = Len(lastCall.input.tensors)
    /\ lastCall.progress[Len(lastCall.progress)].written
         = lastCall.progress[Len(lastCall.progress)].expected

\* C22 as stated: when a progress sink is supplied, serialize calls it after
\* every tensor write with the tensor bytes written so far over the total
\* expected tensor bytes; the reports never decrease and the report after
\* the last tensor indicates completion.
C22_ProgressAfterEveryWrite ==
  (lastCall.op = "serialize" /\ lastCall.input.onProgress) =>
    /\ EveryReportIsFraction
    /\ ReportsNeverDecrease
    /\ CompletionReported

\* C22 as amended: the same for every call whose input has tensor bytes to
\* write; with no tensor bytes expected, and without a sink, no report is
\* made.
C22_ProgressWhenBytesExpected ==
  lastCall.op = "serialize" =>
    IF lastCall.input.onProgress /\ TotalBytes(lastCall.input) > 0
    THEN /\ EveryReportIsFraction
         /\ ReportsNeverDecrease
         /\ CompletionReported
    ELSE lastCall.progress = <<>>

\* three tensors of different sizes were written with a sink: three rising
\* reports, the last of them complete
C22_Witness ==
  /\ lastCall.op = "serialize"
  /\ lastCall.error = ""
  /\ lastCall.input.onProgress
  /\ Len(lastCall.progress) = 3
  /\ lastCall.progress[1].written = 1
  /\ lastCall.progress[2].written = 3
  /\ lastCall.progress[3] = [written |-> 5, expected |-> 5]


----------------------------------------------------------------------------
(* Properties of the parsers of tensor names (specification SpecParsers) *)

\* the config handed to detectLoraAdapters has a number in a field
Supplies(adapterConfig, field) ==
  adapterConfig # NoObject /\ adapterConfig[1][field].t = "number"

\* the rank the shapes tell: A's first dimension if it is B's last
\* dimension, else unknown
ShapeInferredRank(aShape, bShape) ==
  IF aShape[1] = bShape[Len(bShape)] THEN JsNumber(aShape[1]) ELSE JsNull

ChildNames(id) ==
  [k \in 1..Len(lastCall.value[id].children) |->
     lastCall.value[lastCall.value[id].children[k]].name]

\* the node of the tree with a full path (the tree has one)
NodeAt(fullPath) ==
  CHOOSE id \in 1..Len(lastCall.value) : lastCall.value[id].fullPath = fullPath

\* C24: in the tree buildArchitectureTree returns, the children of every
\* node that have a block index are in ascending index order and its
\* children without one are in alphabetical order, whatever the order of
\* the tensors; layers.2.weight, layers.0.weight, layers.1.weight,
\* norm.weight, embed.weight yields root children [embed, layers, norm] and
\* layers children [0, 1, 2].
C24_DeterministicOrdering ==
  lastCall.op = "buildArchitectureTree" =>
    /\ \A id \in 1..Len(lastCall.value) :
         \A k, h \in 1..Len(lastCall.value[id].children) :
           LET a == lastCall.value[lastCall.value[id].children[k]]
               b == lastCall.value[lastCall.value[id].children[h]]
           IN k < h =>
                /\ (a.blockIndex # NoObject /\ b.blockIndex # NoObject) =>
                     a.blockIndex[1] <= b.blockIndex[1]
                /\ (a.blockIndex = NoObject /\ b.blockIndex = NoObject) =>
                     ~LessString(b.name, a.name)
    /\ lastCall.names = OrderingExample =>
         /\ ChildNames(1) = <<EMBED, LAYERS, NORM>>
         /\ ChildNames(NodeAt(LAYERS)) = << <<"0">>, <<"1">>, <<"2">> >>

\* C25: in the tree buildArchitectureTree returns, no two children of a node
\* have the same name, also when one tensor name is a dot-prefix of another
\* (a.b and a.b.c), in either order.
C25_UniqueSiblingNames ==
  lastCall.op = "buildArchitectureTree" =>
    \A id \in 1..Len(lastCall.value) :
      \A k, h \in 1..Len(lastCall.value[id].children) :
        ChildNames(id)[k] = ChildNames(id)[h] => k = h


----------------------------------------------------------------------------
(* Properties of the WorkerPool (specifications SpecWorkers and
   SpecWorkersFair) *)

\* the tasks execute() has returned a promise for
Tasks == 1..Len(promises)

\* the threads that run
LiveWorkers == {x \in 1..Len(threads) : threads[x].state \in {"online", "stopping"}}

\* C21: terminate() rejects every task that is pending when it is called,
\* queued or in flight; once it has returned no promise is pending, and
\* none resolves with a result afterwards.
C21_TerminateRejectsEveryTask ==
  [][/\ (~pool.terminated /\ pool'.terminated) =>
          \A t \in Tasks :
            promises[t] = "pending" => promises'[t] = "WorkerPool terminated"
     /\ terminateCall' = "returned" =>
          \A t \in 1..Len(promises') : promises'[t] # "pending"
     /\ terminateCall = "returned" =>
          \A t \in Tasks : promises'[t] = "resolved" => promises[t] = "resolved"]_vars

\* terminate() has returned after it was called with one task in flight
\* and one in the queue, as the test of the pool calls it
C21_Witness ==
  /\ terminateCall = "returned"
  /\ started = <<1>>
  /\ promises = <<"WorkerPool terminated", "WorkerPool terminated">>

\* C30: the pool never has more than maxWorkers live workers, no worker
\* holds more than one unanswered task, the tasks in the queue are pending
\* and not started, and the tasks are started in the order they were
\* submitted in.
C30_LimitsAndOrder ==
  /\ Cardinality(LiveWorkers) <= pool.maxWorkers
  /\ \A x \in 1..Len(threads) : Len(threads[x].inbox) <= 1
  /\ \A i \in 1..Len(pool.taskQueue) :
       /\ promises[pool.taskQueue[i]] = "pending"
       /\ \A k \in 1..Len(started) : started[k] # pool.taskQueue[i]
  /\ \A i, j \in 1..Len(started) : i < j => started[i] < started[j]

\* the only worker has answered the first task and holds the second, which
\* waited for it, and the third task waits in the queue
C30_Witness ==
  /\ pool.maxWorkers = 1
  /\ Cardinality(LiveWorkers) = 1
  /\ promises = <<"resolved", "pending", "pending">>
  /\ started = <<1, 2>>
  /\ pool.taskQueue = <<3>>

\* C29: every task execute() accepted is settled at last, if every thread
\* that holds a task answers it, fails or exits at last.
C29_EveryTaskSettles ==
  \A t \in 1..MaxTasks :
    (t \in Tasks) ~> (t \in Tasks /\ promises[t] # "pending")


----------------------------------------------------------------------------
(* Properties of the loading of models (specification SpecLoads) *)

\* no loadAndSendModel is at an await
NoLoadUnderWay ==
  \A i \in 1..Len(loads) : loads[i].at \in {"done", "failed"}

\* C26: when no load is under way, the active session was constructed from
\* the model recorded as currentModelA: the tensors and the header lengths
\* of its first state are those of currentModelA.
C26_SessionOfCurrentModel ==
  (NoLoadUnderWay /\ sessionActive) =>
    /\ currentModelA # NoObject
    /\ loadedModel[1].tensors = currentModelA[1].tensors
    /\ loadedModel[1].shardHeaderLengths = currentModelA[1].shardHeaderLengths
    /\ states[1].tensors = currentModelA[1].tensors

====
